---------------------------- MODULE Spec2Model ----------------------------
(***************************************************************************)
(* agent-audit: format detection, the four normalizers, the estimation     *)
(* engine and the lint engine, modelled from src/src/agent_audit.          *)
(*                                                                         *)
(* Every public function is one action: it reads its input (a raw YAML     *)
(* mapping, a ParsedStep or a ParsedWorkflow), records the call in `call`  *)
(* and what the call returned or raised in `ret`.                          *)
(*                                                                         *)
(* Encodings.                                                              *)
(*   Optional values: None is <<>>, a present value v is <<v>>.            *)
(*   Money: cost_usd is kept in micro-dollars (1e-6 USD), an integer; a    *)
(*   price per 1000 tokens of p thousandths of a dollar is p micro-dollars *)
(*   per token, so round(..., 6) of the code is exact on these values.     *)
(*   Exceptions: a call that raises returns Raise(<exception class>).      *)
(***************************************************************************)
EXTENDS Integers, Sequences, FiniteSets, TLC

VARIABLES
    raw,    \* the raw YAML mapping handed to detect_format / a normalizer
    wf,     \* the ParsedWorkflow handed to estimate_workflow / run_lint
    step,   \* the ParsedStep handed to estimate_step / _resolve_tokens
    call,   \* the last call made: [op |-> name, ...arguments]
    ret,    \* what that call returned (Ok) or raised (Raise)
    sys_modules,        \* the agent_audit modules the interpreter has imported
    registry,           \* rules/__init__.py's module-level list _RULE_REGISTRY
    _cached_providers,  \* pricing.py's module-level _cached_providers
    files               \* the pricing files on disk, by path

\* The interpreter's module-level state, which the pure functions leave alone.
process == <<sys_modules, registry, _cached_providers, files>>

vars == <<raw, wf, step, call, ret, sys_modules, registry, _cached_providers, files>>

-----------------------------------------------------------------------------
(* Python values the model needs                                           *)

None == <<>>
Some(v) == <<v>>

\* An input that a specification does not use.
Absent == [absent |-> TRUE]

NoCall == [op |-> "none"]
NoRet == [pending |-> TRUE]

\* Module-level state of a behaviour that only calls pure functions: they are
\* handed the shipped pricing table and the fully imported rule registry.
ProcessUnmodelled ==
    /\ sys_modules = Absent
    /\ registry = Absent
    /\ _cached_providers = Absent
    /\ files = Absent

Ok(v) == [ok |-> TRUE, value |-> v]
Raise(e) == [ok |-> FALSE, error |-> e]

\* bool(x) of an Optional[str].
TruthyStr(x) == x # None /\ x[1] # ""

\* bool(x) of an Optional[int].
TruthyInt(x) == x # None /\ x[1] # 0

\* int(x) on a rational a/b given as numerator and denominator: truncation
\* toward zero (\div rounds toward minus infinity).
IntTrunc(a, b) == IF a >= 0 THEN a \div b ELSE -((-a) \div b)

Min(a, b) == IF a <= b THEN a ELSE b
Max(a, b) == IF a >= b THEN a ELSE b

\* dict.get(key, default) on a TLA+ function used as a dict.
DictGet(d, key, default) == IF key \in DOMAIN d THEN d[key] ELSE default

RECURSIVE SeqSum(_)
SeqSum(s) == IF s = <<>> THEN 0 ELSE Head(s) + SeqSum(Tail(s))

\* The concatenation of a sequence of sequences.
RECURSIVE Flatten(_)
Flatten(ss) == IF ss = <<>> THEN <<>> ELSE Head(ss) \o Flatten(Tail(ss))

\* All sequences over S of length 0..n.
RECURSIVE SeqsUpTo(_, _)
SeqsUpTo(S, n) ==
    IF n = 0 THEN {<<>>}
    ELSE LET shorter == SeqsUpTo(S, n - 1)
         IN shorter \cup {Append(s, x) : s \in {t \in shorter : Len(t) = n - 1}, x \in S}

-----------------------------------------------------------------------------
(* config.py                                                               *)

ROLE_TOKEN_DEFAULTS ==
    [planner |-> 5000, builder |-> 20000, tester |-> 10000, reviewer |-> 5000,
     architect |-> 8000, documenter |-> 6000, analyst |-> 8000, reporter |-> 4000,
     visualizer |-> 5000, security_auditor |-> 12000]

STEP_TYPE_TOKEN_DEFAULTS ==
    [llm |-> 8000, shell |-> 0, checkpoint |-> 0, mcp_tool |-> 0, fan_in |-> 0,
     branch |-> 0]

\* INPUT_OUTPUT_RATIO = 0.3, kept as the fraction 3/10.
INPUT_OUTPUT_RATIO_NUM == 3
INPUT_OUTPUT_RATIO_DEN == 10

SEVERITY_DEDUCTIONS == [error |-> 10, warning |-> 5, info |-> 2]

CONTAINER_STEP_TYPES == {"parallel", "fan_out", "map_reduce", "loop"}

-----------------------------------------------------------------------------
(* models.py                                                               *)

StepType ==
    {"llm", "shell", "parallel", "checkpoint", "fan_out", "fan_in", "map_reduce",
     "branch", "loop", "mcp_tool"}

Severity == {"error", "warning", "info"}

RuleCategory == {"budget", "resilience", "efficiency", "security"}

WorkflowFormat == {"gorgon", "langchain", "crewai", "generic"}

\* ParsedStep(id=..., step_type=...) with every other field at its default.
ParsedStep(id, step_type) ==
    [id |-> id, step_type |-> step_type, provider |-> None, model |-> None,
     role |-> None, estimated_tokens |-> None, on_failure |-> None,
     max_retries |-> 0, timeout_seconds |-> None, has_condition |-> FALSE,
     has_fallback |-> FALSE, depends_on |-> <<>>, nested_steps |-> <<>>,
     raw_params |-> <<>>]

StepEstimate(step_id, step_type, provider, model, role, estimated_tokens, input_tokens, output_tokens, cost_usd, source) ==
    [step_id |-> step_id, step_type |-> step_type, provider |-> provider,
     model |-> model, role |-> role, estimated_tokens |-> estimated_tokens,
     input_tokens |-> input_tokens, output_tokens |-> output_tokens,
     cost_usd |-> cost_usd, source |-> source]

-----------------------------------------------------------------------------
(* pricing.py and the bundled pricing table data/providers.yaml            *)

\* The table load_providers() returns. Prices are micro-dollars per token
\* (= thousandths of a dollar per 1000 tokens).
PROVIDERS ==
    [anthropic |->
        [default_model |-> "claude-sonnet-4",
         models |-> [m \in {"claude-sonnet-4", "claude-opus-4"} |->
                        IF m = "claude-sonnet-4"
                        THEN [input_price |-> 3, output_price |-> 15]
                        ELSE [input_price |-> 15, output_price |-> 75]]],
     openai |->
        [default_model |-> "gpt-4o",
         models |-> [m \in {"gpt-4o"} |-> [input_price |-> 5, output_price |-> 15]]],
     ollama |->
        [default_model |-> "llama3.3-70b",
         models |-> [m \in {"llama3.3-70b"} |-> [input_price |-> 0, output_price |-> 0]]]]

\* A variant of get_model_pricing that prices an unknown provider or model
\* at zero instead of raising.
get_model_pricing_lenient(provider, model) ==
    IF provider \notin DOMAIN PROVIDERS THEN Ok([input_price |-> 0, output_price |-> 0])
    ELSE LET config == PROVIDERS[provider]
             model_name == IF model # "" THEN model ELSE config.default_model
         IN IF model_name \notin DOMAIN config.models
            THEN Ok([input_price |-> 0, output_price |-> 0])
            ELSE Ok(config.models[model_name])

\* get_model_pricing(provider, model): the ModelPricing, or PricingError.
get_model_pricing(provider, model) ==
    IF provider \notin DOMAIN PROVIDERS THEN Raise("PricingError")
    ELSE LET config == PROVIDERS[provider]
             model_name == IF model # "" THEN model ELSE config.default_model
         IN IF model_name \notin DOMAIN config.models THEN Raise("PricingError")
            ELSE Ok(config.models[model_name])

\* calculate_cost: (input/1000)*input_price_per_1k + (output/1000)*output_price_per_1k,
\* rounded to 6 decimals; in micro-dollars the sum is already whole.
calculate_cost(input_tokens, output_tokens, pricing) ==
    input_tokens * pricing.input_price + output_tokens * pricing.output_price

-----------------------------------------------------------------------------
(* estimator.py                                                            *)

\* Mutant: the declared estimate is tested for truth instead of for None.
_resolve_tokens_truthy(s) ==
    IF TruthyInt(s.estimated_tokens) THEN <<s.estimated_tokens[1], "declared">>
    ELSE IF TruthyStr(s.role) /\ s.role[1] \in DOMAIN ROLE_TOKEN_DEFAULTS
    THEN <<ROLE_TOKEN_DEFAULTS[s.role[1]], "archetype">>
    ELSE <<DictGet(STEP_TYPE_TOKEN_DEFAULTS, s.step_type, 0), "default">>

\* _resolve_tokens(step) -> (tokens, source)
_resolve_tokens(s) ==
    IF s.estimated_tokens # None THEN <<s.estimated_tokens[1], "declared">>
    ELSE IF TruthyStr(s.role) /\ s.role[1] \in DOMAIN ROLE_TOKEN_DEFAULTS
    THEN <<ROLE_TOKEN_DEFAULTS[s.role[1]], "archetype">>
    ELSE LET default == DictGet(STEP_TYPE_TOKEN_DEFAULTS, s.step_type, 0)
         IN IF s.step_type = "llm" /\ default = 0
            THEN <<DictGet(STEP_TYPE_TOKEN_DEFAULTS, "llm", 8000), "default">>
            ELSE <<default, "default">>

\* Mutant: the output share is computed from the ratio too, not as the rest.
_split_tokens_both_rounded(total) ==
    <<IntTrunc(total * INPUT_OUTPUT_RATIO_NUM, INPUT_OUTPUT_RATIO_DEN),
      IntTrunc(total * (INPUT_OUTPUT_RATIO_DEN - INPUT_OUTPUT_RATIO_NUM),
               INPUT_OUTPUT_RATIO_DEN)>>

\* _split_tokens(total) -> (input_tokens, output_tokens)
_split_tokens(total) ==
    LET input_tokens == IntTrunc(total * INPUT_OUTPUT_RATIO_NUM, INPUT_OUTPUT_RATIO_DEN)
    IN <<input_tokens, total - input_tokens>>

\* estimate_step, lines 50-57: the container's own total against the sum of
\* its direct nested steps.
container_tokens(s) ==
    LET own == _resolve_tokens(s)
        nested_total == SeqSum([i \in 1..Len(s.nested_steps) |->
                                   _resolve_tokens(s.nested_steps[i])[1]])
    IN IF s.nested_steps # <<>> /\ nested_total > own[1]
       THEN <<nested_total,
              IF TruthyInt(s.estimated_tokens) THEN "declared" ELSE "archetype">>
       ELSE own

\* Mutant: every step with tokens is priced, whatever its type.
step_cost_any_type(s, provider, model, input_tokens, output_tokens) ==
    LET pricing == get_model_pricing(provider, model)
    IN IF pricing.ok
       THEN Ok(calculate_cost(input_tokens, output_tokens, pricing.value))
       ELSE pricing

\* estimate_step, lines 61-66: the cost, or the PricingError of the lookup.
step_cost(s, provider, model, input_tokens, output_tokens) ==
    IF s.step_type # "llm" THEN Ok(0)
    ELSE LET pricing == get_model_pricing(provider, model)
         IN IF pricing.ok
            THEN Ok(calculate_cost(input_tokens, output_tokens, pricing.value))
            ELSE pricing

\* estimate_step(step, provider, model) -> StepEstimate
estimate_step(s, provider, model) ==
    LET resolved == container_tokens(s)
        split == _split_tokens(resolved[1])
        cost == step_cost(s, provider, model, split[1], split[2])
    IN IF ~cost.ok THEN cost
       ELSE Ok(StepEstimate(s.id, s.step_type, provider, model, s.role,
                            resolved[1], split[1], split[2], cost.value,
                            resolved[2]))

\* round(n/d, 0) of Python on the exact rational n/d (d > 0): half to even.
RoundHalfEven(n, d) ==
    LET q == n \div d
        r == n - q * d
    IN IF 2 * r < d THEN q
       ELSE IF 2 * r > d THEN q + 1
       ELSE IF q % 2 = 0 THEN q ELSE q + 1

ParsedWorkflow(name, format, token_budget, steps, inputs) ==
    [name |-> name, format |-> format, token_budget |-> token_budget,
     steps |-> steps, inputs |-> inputs, outputs |-> <<>>, metadata |-> <<>>]

\* Mutant: only llm steps are asked for a provider.
resolve_provider_llm_only(workflow, provider) ==
    IF provider # None THEN provider[1]
    ELSE LET declaring == {i \in 1..Len(workflow.steps) :
                              /\ workflow.steps[i].step_type = "llm"
                              /\ TruthyStr(workflow.steps[i].provider)}
         IN IF declaring = {} THEN "anthropic"
            ELSE workflow.steps[CHOOSE i \in declaring : \A j \in declaring : i <= j].provider[1]

\* estimate_workflow, lines 94-100: the workflow-level provider.
resolve_provider(workflow, provider) ==
    IF provider # None THEN provider[1]
    ELSE LET declaring == {i \in 1..Len(workflow.steps) : TruthyStr(workflow.steps[i].provider)}
         IN IF declaring = {} THEN "anthropic"
            ELSE workflow.steps[CHOOSE i \in declaring : \A j \in declaring : i <= j].provider[1]

\* estimate_workflow, lines 103-105: the workflow-level model.
resolve_model(provider, model) ==
    IF model # None THEN model[1]
    ELSE IF provider \in DOMAIN PROVIDERS THEN PROVIDERS[provider].default_model
    ELSE "unknown"

\* Mutant: a step's own provider wins even over the caller's.
step_provider_step_first(s, explicit_provider, provider) ==
    IF TruthyStr(s.provider) THEN s.provider[1] ELSE provider

\* estimate_workflow, line 110: the provider one step is estimated with.
step_provider(s, explicit_provider, provider) ==
    IF explicit_provider THEN provider
    ELSE IF TruthyStr(s.provider) THEN s.provider[1] ELSE provider

\* A variant of step_model in which the workflow-level model replaces the
\* model a step declares.
step_model_overridden(s, model) == model

\* estimate_workflow, line 111: the model one step is estimated with.
step_model(s, model) == IF TruthyStr(s.model) THEN s.model[1] ELSE model

\* estimate_workflow, lines 117-119: utilization in tenths of a percent.
budget_utilization(workflow, total_tokens) ==
    IF TruthyInt(workflow.token_budget) /\ workflow.token_budget[1] > 0
    THEN Some(RoundHalfEven(total_tokens * 1000, workflow.token_budget[1]))
    ELSE None

\* A variant of estimate_workflow that also appends one estimate for every
\* direct nested step of a container, after the container's own estimate.
estimate_workflow_flattened(workflow, provider_arg, model_arg) ==
    LET provider == resolve_provider(workflow, provider_arg)
        model == resolve_model(provider, model_arg)
        flat == Flatten([i \in 1..Len(workflow.steps) |->
                           <<workflow.steps[i]>> \o workflow.steps[i].nested_steps])
        n == Len(flat)
        results == [i \in 1..n |->
                      estimate_step(flat[i],
                                    step_provider(flat[i], provider_arg # None, provider),
                                    step_model(flat[i], model))]
        failed == {i \in 1..n : ~results[i].ok}
    IN IF failed # {} THEN results[CHOOSE i \in failed : \A j \in failed : i <= j]
       ELSE LET step_estimates == [i \in 1..n |-> results[i].value]
                total_tokens == SeqSum([i \in 1..n |-> step_estimates[i].estimated_tokens])
                total_cost == SeqSum([i \in 1..n |-> step_estimates[i].cost_usd])
            IN Ok([workflow_name |-> workflow.name,
                   total_tokens |-> total_tokens,
                   total_cost_usd |-> total_cost,
                   budget_declared |-> workflow.token_budget,
                   budget_utilization |-> budget_utilization(workflow, total_tokens),
                   steps |-> step_estimates,
                   provider |-> provider,
                   model |-> model])

\* estimate_workflow(workflow, provider=None, model=None) -> WorkflowEstimate
estimate_workflow(workflow, provider_arg, model_arg) ==
    LET provider == resolve_provider(workflow, provider_arg)
        model == resolve_model(provider, model_arg)
        n == Len(workflow.steps)
        results == [i \in 1..n |->
                      estimate_step(workflow.steps[i],
                                    step_provider(workflow.steps[i], provider_arg # None, provider),
                                    step_model(workflow.steps[i], model))]
        failed == {i \in 1..n : ~results[i].ok}
    IN IF failed # {} THEN results[CHOOSE i \in failed : \A j \in failed : i <= j]
       ELSE LET step_estimates == [i \in 1..n |-> results[i].value]
                total_tokens == SeqSum([i \in 1..n |-> step_estimates[i].estimated_tokens])
                total_cost == SeqSum([i \in 1..n |-> step_estimates[i].cost_usd])
            IN Ok([workflow_name |-> workflow.name,
                   total_tokens |-> total_tokens,
                   total_cost_usd |-> total_cost,
                   budget_declared |-> workflow.token_budget,
                   budget_utilization |-> budget_utilization(workflow, total_tokens),
                   steps |-> step_estimates,
                   provider |-> provider,
                   model |-> model])

-----------------------------------------------------------------------------
(* The estimation engine on bounded inputs                                 *)

\* Longest nested_steps list of an estimated step.
MaxNested == 2

\* Longest step list of an estimated workflow.
MaxEstSteps == 3

WithTokens(s, n) == [s EXCEPT !.estimated_tokens = Some(n)]
WithRole(s, r) == [s EXCEPT !.role = Some(r)]
WithProvider(s, p) == [s EXCEPT !.provider = Some(p)]
WithModel(s, m) == [s EXCEPT !.model = Some(m)]
WithNested(s, ns) == [s EXCEPT !.nested_steps = ns]

\* Steps nested in a container: type default, declared, archetype, and a
\* container that itself holds a step.
NestedPool ==
    {ParsedStep("n_llm", "llm"),
     WithTokens(ParsedStep("n_shell", "shell"), 5000),
     WithRole(ParsedStep("n_build", "llm"), "builder"),
     WithNested(ParsedStep("n_loop", "loop"), <<ParsedStep("g_llm", "llm")>>)}

DeclaredTokens == {None, Some(-1), Some(0), Some(7), Some(8000), Some(30000)}

Roles == {None, Some(""), Some("planner"), Some("custom")}

\* The steps handed to estimate_step and _resolve_tokens.
StepDomain ==
    {[ParsedStep("s", t) EXCEPT !.role = r, !.estimated_tokens = e, !.nested_steps = ns] :
        t \in StepType, r \in Roles, e \in DeclaredTokens,
        ns \in SeqsUpTo(NestedPool, MaxNested)}

ProviderNames == {"anthropic", "ollama", "acme"}
ModelNames == {"", "claude-opus-4", "llama3.3-70b", "bogus"}

\* The top-level steps of the workflows handed to estimate_workflow.
EstStepPool ==
    {WithTokens(ParsedStep("plain", "llm"), 1000),
     WithTokens(WithProvider(ParsedStep("oa", "llm"), "openai"), 1000),
     WithRole(WithModel(WithProvider(ParsedStep("local", "llm"), "ollama"), "llama3.3-70b"), "planner"),
     WithTokens(WithProvider(ParsedStep("tool", "shell"), "acme"), 7),
     WithProvider(ParsedStep("blank", "llm"), ""),
     WithTokens(WithModel(ParsedStep("unnamed", "llm"), ""), 500),
     WithTokens(WithModel(WithProvider(ParsedStep("opus", "llm"), "anthropic"), "claude-opus-4"), 20000),
     WithTokens(WithNested(ParsedStep("par", "parallel"), <<ParsedStep("n_llm", "llm"), WithRole(ParsedStep("n_build", "llm"), "builder")>>), 0),
     ParsedStep("cp", "checkpoint"),
     WithModel(ParsedStep("odd", "llm"), "bogus")}

EstBudgets == {None, Some(150000)}

EstWorkflows ==
    {ParsedWorkflow("wf", "gorgon", b, ss, <<>>) :
        b \in EstBudgets, ss \in SeqsUpTo(EstStepPool, MaxEstSteps)}

ProviderArgs == {None, Some("anthropic"), Some("ollama"), Some("acme"), Some("")}
ModelArgs == {None, Some("claude-opus-4"), Some("llama3.3-70b"), Some("")}

\* The functions are pure: what a call returns does not depend on the calls
\* made before it. A behaviour is therefore one input and one call on it
\* (call = NoCall guards every action).
InitEstimate ==
    /\ ProcessUnmodelled
    /\ raw = Absent
    /\ call = NoCall
    /\ ret = NoRet
    /\ \/ step \in StepDomain /\ wf = Absent
       \/ step = Absent /\ wf \in EstWorkflows

ResolveTokens ==
    /\ call = NoCall
    /\ step # Absent
    /\ call' = [op |-> "_resolve_tokens"]
    /\ ret' = Ok(_resolve_tokens(step))
    /\ UNCHANGED <<raw, wf, step, process>>

EstimateStep ==
    \E p \in ProviderNames, m \in ModelNames :
        /\ call = NoCall
        /\ step # Absent
        /\ call' = [op |-> "estimate_step", provider |-> p, model |-> m]
        /\ ret' = estimate_step(step, p, m)
        /\ UNCHANGED <<raw, wf, step, process>>

EstimateWorkflow ==
    \E p \in ProviderArgs, m \in ModelArgs :
        /\ call = NoCall
        /\ wf # Absent
        /\ call' = [op |-> "estimate_workflow", provider |-> p, model |-> m]
        /\ ret' = estimate_workflow(wf, p, m)
        /\ UNCHANGED <<raw, wf, step, process>>

NextEstimate == ResolveTokens \/ EstimateStep \/ EstimateWorkflow

SpecEstimate == InitEstimate /\ [][NextEstimate]_vars

-----------------------------------------------------------------------------
(* Properties of the estimation engine (SpecEstimate)                      *)

\* The estimate a call returned, when the last call was `op` and returned.
Returned(op) == call.op = op /\ ret.ok

\* C6: the resolved token estimate and its source follow a strict priority
\* chain: a declared estimate (a declared 0 included) gives that value,
\* tagged "declared"; else a role among the ten archetypes gives the role's
\* table value, tagged "archetype"; else the step-type default (8000 for an
\* llm step, 0 for every other type), tagged "default". estimate_step
\* reports the same pair for a step without nested steps.
C6_ResolvePriority ==
    LET chain == IF step.estimated_tokens # None
                 THEN <<step.estimated_tokens[1], "declared">>
                 ELSE IF step.role # None /\ step.role[1] \in DOMAIN ROLE_TOKEN_DEFAULTS
                 THEN <<ROLE_TOKEN_DEFAULTS[step.role[1]], "archetype">>
                 ELSE IF step.step_type = "llm" THEN <<8000, "default">>
                 ELSE <<0, "default">>
    IN /\ Cardinality(DOMAIN ROLE_TOKEN_DEFAULTS) = 10
       /\ call.op = "_resolve_tokens" => ret = Ok(chain)
       /\ Returned("estimate_step") /\ step.nested_steps = <<>> =>
             /\ ret.value.estimated_tokens = chain[1]
             /\ ret.value.source = chain[2]

\* A declared 0 wins over the archetype of a known role.
C6_Witness ==
    /\ call.op = "_resolve_tokens"
    /\ step.estimated_tokens = Some(0)
    /\ step.role = Some("planner")
    /\ ret = Ok(<<0, "declared">>)

\* The sum of the resolved totals of the direct nested steps of s.
NestedSum(s) ==
    SeqSum([i \in 1..Len(s.nested_steps) |-> _resolve_tokens(s.nested_steps[i])[1]])

\* C7: for a step with nested steps, estimate_step compares the container's
\* own resolved total with the sum over its direct nested steps; a strictly
\* greater nested sum becomes the total, tagged "declared" if the container
\* had an explicit estimate (of any value) and "archetype" otherwise; if it
\* is not greater the container's own total and source are kept.
C7_NestedSumWins ==
    Returned("estimate_step") /\ step.nested_steps # <<>> =>
        LET own == _resolve_tokens(step)
        IN IF NestedSum(step) > own[1]
           THEN /\ ret.value.estimated_tokens = NestedSum(step)
                /\ ret.value.source =
                      IF step.estimated_tokens # None THEN "declared" ELSE "archetype"
           ELSE /\ ret.value.estimated_tokens = own[1]
                /\ ret.value.source = own[2]

\* Every StepEstimate the last call returned.
ReturnedStepEstimates ==
    IF Returned("estimate_step") THEN {ret.value}
    ELSE IF Returned("estimate_workflow")
    THEN {ret.value.steps[i] : i \in 1..Len(ret.value.steps)}
    ELSE {}

\* C8: for every step estimate with token total T >= 0,
\* input_tokens + output_tokens = T and input_tokens = floor(3*T/10).
C8_TokenSplit ==
    \A e \in ReturnedStepEstimates :
        e.estimated_tokens >= 0 =>
            /\ e.input_tokens + e.output_tokens = e.estimated_tokens
            /\ e.input_tokens = (3 * e.estimated_tokens) \div 10

\* A total that the ratio does not divide: 7 tokens split into 2 and 5.
C8_Witness ==
    /\ Returned("estimate_step")
    /\ ret.value.estimated_tokens = 7
    /\ ret.value.input_tokens = 2
    /\ ret.value.output_tokens = 5

\* C9: estimate_step returns cost_usd = 0 for every step whose type is not
\* llm, whatever its token total, provider and model (it never looks the
\* pricing up, so it cannot fail either); in a workflow estimate every
\* non-llm step has cost 0 and total_cost_usd is the sum over the llm steps.
C9_NonLlmCostsNothing ==
    /\ call.op = "estimate_step" /\ step.step_type # "llm" =>
          ret.ok /\ ret.value.cost_usd = 0
    /\ Returned("estimate_workflow") =>
          /\ \A i \in 1..Len(wf.steps) :
                wf.steps[i].step_type # "llm" => ret.value.steps[i].cost_usd = 0
          /\ ret.value.total_cost_usd =
                SeqSum([i \in 1..Len(wf.steps) |->
                           IF wf.steps[i].step_type = "llm"
                           THEN ret.value.steps[i].cost_usd ELSE 0])

\* A container whose nested sum is 28000 tokens, estimated with a priced
\* provider, costs nothing.
C9_Witness ==
    /\ call.op = "estimate_step"
    /\ call.provider = "anthropic"
    /\ step.step_type = "parallel"
    /\ ret.ok
    /\ ret.value.estimated_tokens = 28000
    /\ ret.value.cost_usd = 0

\* The provider the claim C10 describes: the caller's, else that of the
\* first top-level step declaring one, else "anthropic".
C10_Provider ==
    IF call.provider # None THEN call.provider[1]
    ELSE IF \E i \in 1..Len(wf.steps) : TruthyStr(wf.steps[i].provider)
    THEN LET first == CHOOSE i \in 1..Len(wf.steps) :
                         /\ TruthyStr(wf.steps[i].provider)
                         /\ \A j \in 1..(i - 1) : ~TruthyStr(wf.steps[j].provider)
         IN wf.steps[first].provider[1]
    ELSE "anthropic"

-----------------------------------------------------------------------------
(* Raw YAML values: what yaml.safe_load returns                            *)
(*                                                                         *)
(* A value is a record tagged with its Python type in k. A mapping keeps   *)
(* its items as a sequence of <<key, value>> pairs in insertion order, the *)
(* keys being strings and distinct.                                        *)

VNull == [k |-> "null"]
VBool(b) == [k |-> "bool", b |-> b]
VInt(n) == [k |-> "int", n |-> n]
VStr(s) == [k |-> "str", s |-> s]
VList(items) == [k |-> "list", items |-> items]
VMap(kv) == [k |-> "map", kv |-> kv]

\* key in d, for the items kv of a mapping.
HasKey(kv, key) == \E i \in 1..Len(kv) : kv[i][1] = key

\* d[key], for a key that is present.
Lookup(kv, key) == kv[CHOOSE i \in 1..Len(kv) : kv[i][1] = key][2]

\* d.get(key, default)
Get(kv, key, default) == IF HasKey(kv, key) THEN Lookup(kv, key) ELSE default

\* bool(v)
PyTruthy(v) ==
    CASE v.k = "null" -> FALSE
      [] v.k = "bool" -> v.b
      [] v.k = "int" -> v.n # 0
      [] v.k = "str" -> v.s # ""
      [] v.k = "list" -> v.items # <<>>
      [] v.k = "map" -> v.kv # <<>>

RECURSIVE JoinStrings(_, _)
JoinStrings(ss, sep) ==
    IF ss = <<>> THEN ""
    ELSE IF Len(ss) = 1 THEN ss[1]
    ELSE ss[1] \o sep \o JoinStrings(Tail(ss), sep)

\* repr(v)
RECURSIVE PyRepr(_)
PyRepr(v) ==
    CASE v.k = "null" -> "None"
      [] v.k = "bool" -> IF v.b THEN "True" ELSE "False"
      [] v.k = "int" -> ToString(v.n)
      [] v.k = "str" -> "'" \o v.s \o "'"
      [] v.k = "list" ->
            "[" \o JoinStrings([i \in 1..Len(v.items) |-> PyRepr(v.items[i])], ", ") \o "]"
      [] v.k = "map" ->
            "{" \o JoinStrings([i \in 1..Len(v.kv) |->
                                   "'" \o v.kv[i][1] \o "': " \o PyRepr(v.kv[i][2])], ", ") \o "}"

\* str(v)
PyStr(v) == IF v.k = "str" THEN v.s ELSE PyRepr(v)

\* sub in s, on strings.
Contains(s, sub) ==
    \E i \in 1..(Len(s) - Len(sub) + 1) : SubSeq(s, i, i + Len(sub) - 1) = sub


Range(s) == {s[i] : i \in 1..Len(s)}

-----------------------------------------------------------------------------
(* rules/budget.py, rules/resilience.py, rules/efficiency.py,              *)
(* rules/security.py: the built-in rules. A finding keeps the fields the   *)
(* engine and its callers read; message and suggestion are display text.   *)

LintFinding(rule_id, category, severity, step_id) ==
    [rule_id |-> rule_id, category |-> category, severity |-> severity,
     step_id |-> step_id]

\* Mutant: the budget is tested for truth, so a declared 0 counts as missing.
check_workflow_budget_falsy(workflow) ==
    IF ~TruthyInt(workflow.token_budget)
    THEN <<LintFinding("B001", "budget", "warning", None)>>
    ELSE <<>>

\* B001
check_workflow_budget(workflow) ==
    IF workflow.token_budget = None
    THEN <<LintFinding("B001", "budget", "warning", None)>>
    ELSE <<>>

\* B002: tokens > token_budget * 0.5
check_step_budget_hog(workflow) ==
    IF workflow.token_budget = None \/ workflow.token_budget[1] = 0 THEN <<>>
    ELSE Flatten([i \in 1..Len(workflow.steps) |->
            LET s == workflow.steps[i]
            IN IF s.estimated_tokens # None
                  /\ 2 * s.estimated_tokens[1] > workflow.token_budget[1]
               THEN <<LintFinding("B002", "budget", "warning", Some(s.id))>>
               ELSE <<>>])

\* B003, lines 68-82: the total the rule compares with the budget.
budget_step_tokens(s) ==
    IF s.estimated_tokens # None THEN s.estimated_tokens[1]
    ELSE IF s.step_type = "llm"
    THEN IF TruthyStr(s.role) /\ s.role[1] \in DOMAIN ROLE_TOKEN_DEFAULTS
         THEN ROLE_TOKEN_DEFAULTS[s.role[1]]
         ELSE DictGet(STEP_TYPE_TOKEN_DEFAULTS, "llm", 8000)
    ELSE 0

\* B003
check_total_over_budget(workflow) ==
    IF workflow.token_budget = None \/ workflow.token_budget[1] = 0 THEN <<>>
    ELSE LET total == SeqSum([i \in 1..Len(workflow.steps) |->
                                budget_step_tokens(workflow.steps[i])])
         IN IF total > workflow.token_budget[1]
            THEN <<LintFinding("B003", "budget", "error", None)>>
            ELSE <<>>

\* B004
check_undeclared_tokens(workflow) ==
    Flatten([i \in 1..Len(workflow.steps) |->
        LET s == workflow.steps[i]
        IN IF s.step_type = "llm" /\ s.estimated_tokens = None
           THEN <<LintFinding("B004", "budget", "info", Some(s.id))>>
           ELSE <<>>])

\* R001
check_missing_on_failure(workflow) ==
    Flatten([i \in 1..Len(workflow.steps) |->
        LET s == workflow.steps[i]
        IN IF s.step_type = "llm" /\ s.on_failure = None
           THEN <<LintFinding("R001", "resilience", "warning", Some(s.id))>>
           ELSE <<>>])

\* R002
check_abort_no_fallback(workflow) ==
    Flatten([i \in 1..Len(workflow.steps) |->
        LET s == workflow.steps[i]
        IN IF s.on_failure = Some("abort") /\ ~s.has_fallback
           THEN <<LintFinding("R002", "resilience", "warning", Some(s.id))>>
           ELSE <<>>])

\* R003
check_retry_no_max(workflow) ==
    Flatten([i \in 1..Len(workflow.steps) |->
        LET s == workflow.steps[i]
        IN IF s.on_failure = Some("retry") /\ s.max_retries = 0
           THEN <<LintFinding("R003", "resilience", "info", Some(s.id))>>
           ELSE <<>>])

\* A variant of check_shell_no_timeout that looks into the nested steps too.
check_shell_no_timeout_nested(workflow) ==
    LET steps == Flatten([i \in 1..Len(workflow.steps) |->
                             <<workflow.steps[i]>> \o workflow.steps[i].nested_steps])
    IN Flatten([i \in 1..Len(steps) |->
           IF steps[i].step_type = "shell" /\ steps[i].timeout_seconds = None
           THEN <<LintFinding("R004", "resilience", "warning", Some(steps[i].id))>>
           ELSE <<>>])

\* R004
check_shell_no_timeout(workflow) ==
    Flatten([i \in 1..Len(workflow.steps) |->
        LET s == workflow.steps[i]
        IN IF s.step_type = "shell" /\ s.timeout_seconds = None
           THEN <<LintFinding("R004", "resilience", "warning", Some(s.id))>>
           ELSE <<>>])

\* R005, lines 119-148: the scan from step i on, with the two counters.
RECURSIVE checkpoint_scan(_, _, _, _)
checkpoint_scan(steps, i, consecutive_llm, expensive_tokens) ==
    IF i > Len(steps) THEN <<>>
    ELSE LET s == steps[i]
             tokens == IF s.estimated_tokens # None THEN s.estimated_tokens[1]
                       ELSE IF TruthyStr(s.role) /\ s.role[1] \in DOMAIN ROLE_TOKEN_DEFAULTS
                       THEN ROLE_TOKEN_DEFAULTS[s.role[1]]
                       ELSE DictGet(STEP_TYPE_TOKEN_DEFAULTS, "llm", 8000)
             count == IF s.step_type = "llm" THEN consecutive_llm + 1
                      ELSE IF s.step_type = "checkpoint" THEN 0
                      ELSE consecutive_llm
             total == IF s.step_type = "llm" THEN expensive_tokens + tokens
                      ELSE IF s.step_type = "checkpoint" THEN 0
                      ELSE expensive_tokens
         IN IF count >= 3 /\ total >= 30000
            THEN <<LintFinding("R005", "resilience", "info", None)>>
            ELSE checkpoint_scan(steps, i + 1, count, total)

\* A variant of R005 that scans the llm steps only, so that no checkpoint
\* resets the run.
check_missing_checkpoint_llm_only(workflow) ==
    checkpoint_scan(SelectSeq(workflow.steps, LAMBDA s : s.step_type = "llm"), 1, 0, 0)

\* R005
check_missing_checkpoint(workflow) == checkpoint_scan(workflow.steps, 1, 0, 0)

\* A variant of has_dependency that never finds an interpolated output.
has_dependency_never(current, next_step) == FALSE

\* E001, lines 28-37: does next_step's prompt interpolate an output of current?
has_dependency(current, next_step) ==
    LET vals == Get(current.raw_params, "outputs", VList(<<>>))
        current_outputs == IF vals.k = "list"
                           THEN {PyStr(vals.items[i]) : i \in 1..Len(vals.items)}
                           ELSE {}
        prompt == PyStr(Get(next_step.raw_params, "prompt", VStr("")))
    IN \E var \in current_outputs : Contains(prompt, "${" \o var \o "}")

\* E001
check_parallelizable(workflow) ==
    LET llm_steps == SelectSeq(workflow.steps, LAMBDA s : s.step_type = "llm")
    IN Flatten([i \in 1..(Len(llm_steps) - 1) |->
          LET current == llm_steps[i]
              next_step == llm_steps[i + 1]
          IN IF current.id \in Range(next_step.depends_on) THEN <<>>
             ELSE IF ~has_dependency(current, next_step) /\ next_step.depends_on = <<>>
             THEN <<LintFinding("E001", "efficiency", "info", Some(next_step.id))>>
             ELSE <<>>])

\* The distinct values of s, each at its first occurrence.
RECURSIVE FirstOccurrences(_)
FirstOccurrences(s) ==
    IF s = <<>> THEN <<>>
    ELSE LET front == FirstOccurrences(SubSeq(s, 1, Len(s) - 1))
         IN IF s[Len(s)] \in Range(front) THEN front ELSE Append(front, s[Len(s)])

\* E002
check_duplicate_roles(workflow) ==
    LET with_role == SelectSeq(workflow.steps,
                               LAMBDA s : s.step_type = "llm" /\ TruthyStr(s.role))
        roles == FirstOccurrences([i \in 1..Len(with_role) |-> with_role[i].role[1]])
    IN Flatten([r \in 1..Len(roles) |->
          IF Cardinality({i \in 1..Len(with_role) : with_role[i].role[1] = roles[r]}) > 2
          THEN <<LintFinding("E002", "efficiency", "warning", None)>>
          ELSE <<>>])

\* step.estimated_tokens or 0
tokens_or_zero(s) == IF TruthyInt(s.estimated_tokens) THEN s.estimated_tokens[1] ELSE 0

\* E003
check_lightweight_checkpoint(workflow) ==
    LET steps == workflow.steps
    IN Flatten([i \in 1..Len(steps) |->
          LET prev_tokens == IF i > 1 THEN tokens_or_zero(steps[i - 1]) ELSE 0
              next_tokens == IF i < Len(steps) THEN tokens_or_zero(steps[i + 1]) ELSE 0
          IN IF steps[i].step_type = "checkpoint"
                /\ prev_tokens < 5000 /\ next_tokens < 5000
             THEN <<LintFinding("E003", "efficiency", "info", Some(steps[i].id))>>
             ELSE <<>>])

\* E004
check_fan_out_no_limit(workflow) ==
    Flatten([i \in 1..Len(workflow.steps) |->
        LET s == workflow.steps[i]
        IN IF s.step_type = "fan_out" /\ Get(s.raw_params, "max_concurrent", VNull) = VNull
           THEN <<LintFinding("E004", "efficiency", "warning", Some(s.id))>>
           ELSE <<>>])

\* A variant of the pattern that stops at the opening brace.
shell_var_search_open(command) == Contains(command, "${")

\* _SHELL_VAR_PATTERN.search(command): "${", one or more characters other
\* than "}", then "}".
shell_var_search(command) ==
    \E i \in 1..(Len(command) - 3) :
        /\ SubSeq(command, i, i + 1) = "${"
        /\ SubSeq(command, i + 2, i + 2) # "}"
        /\ \E j \in (i + 3)..Len(command) : SubSeq(command, j, j) = "}"

\* _HARDCODED_PATH_PATTERN.search(command)
hardcoded_path_search(command) ==
    \E prefix \in {"/usr/", "/home/", "/etc/", "/var/", "/opt/", "C:\\"} :
        Contains(command, prefix)

\* S001
check_shell_injection(workflow) ==
    Flatten([i \in 1..Len(workflow.steps) |->
        LET s == workflow.steps[i]
        IN IF s.step_type = "shell"
              /\ shell_var_search(PyStr(Get(s.raw_params, "command", VStr(""))))
           THEN <<LintFinding("S001", "security", "error", Some(s.id))>>
           ELSE <<>>])

\* S002
check_hardcoded_paths(workflow) ==
    Flatten([i \in 1..Len(workflow.steps) |->
        LET s == workflow.steps[i]
        IN IF s.step_type = "shell"
              /\ hardcoded_path_search(PyStr(Get(s.raw_params, "command", VStr(""))))
           THEN <<LintFinding("S002", "security", "warning", Some(s.id))>>
           ELSE <<>>])

\* S003
check_input_validation(workflow) ==
    Flatten([i \in 1..Len(workflow.inputs) |->
        LET config == workflow.inputs[i][2]
        IN IF config.k = "map"
              /\ PyTruthy(Get(config.kv, "required", VBool(FALSE)))
              /\ ~HasKey(config.kv, "type")
           THEN <<LintFinding("S003", "security", "info", None)>>
           ELSE <<>>])

\* S004
check_mcp_no_server(workflow) ==
    Flatten([i \in 1..Len(workflow.steps) |->
        LET s == workflow.steps[i]
        IN IF s.step_type = "mcp_tool" /\ ~PyTruthy(Get(s.raw_params, "server", VNull))
           THEN <<LintFinding("S004", "security", "warning", Some(s.id))>>
           ELSE <<>>])

-----------------------------------------------------------------------------
(* rules/__init__.py and linter.py                                         *)

RuleEntry(rule_id, category, severity) ==
    [rule_id |-> rule_id, category |-> category, severity |-> severity]

\* _RULE_REGISTRY once linter.py has imported the four rule modules: budget
\* and resilience at module import, efficiency and security in
\* _import_all_rules; each @lint_rule appends in source order.
_RULE_REGISTRY ==
    <<RuleEntry("B001", "budget", "warning"), RuleEntry("B002", "budget", "warning"),
      RuleEntry("B003", "budget", "error"), RuleEntry("B004", "budget", "info"),
      RuleEntry("R001", "resilience", "warning"), RuleEntry("R002", "resilience", "warning"),
      RuleEntry("R003", "resilience", "info"), RuleEntry("R004", "resilience", "warning"),
      RuleEntry("R005", "resilience", "info"),
      RuleEntry("E001", "efficiency", "info"), RuleEntry("E002", "efficiency", "warning"),
      RuleEntry("E003", "efficiency", "info"), RuleEntry("E004", "efficiency", "warning"),
      RuleEntry("S001", "security", "error"), RuleEntry("S002", "security", "warning"),
      RuleEntry("S003", "security", "info"), RuleEntry("S004", "security", "warning")>>

\* rule.func(workflow)
rule_func(rule, workflow) ==
    CASE rule.rule_id = "B001" -> check_workflow_budget(workflow)
      [] rule.rule_id = "B002" -> check_step_budget_hog(workflow)
      [] rule.rule_id = "B003" -> check_total_over_budget(workflow)
      [] rule.rule_id = "B004" -> check_undeclared_tokens(workflow)
      [] rule.rule_id = "R001" -> check_missing_on_failure(workflow)
      [] rule.rule_id = "R002" -> check_abort_no_fallback(workflow)
      [] rule.rule_id = "R003" -> check_retry_no_max(workflow)
      [] rule.rule_id = "R004" -> check_shell_no_timeout(workflow)
      [] rule.rule_id = "R005" -> check_missing_checkpoint(workflow)
      [] rule.rule_id = "E001" -> check_parallelizable(workflow)
      [] rule.rule_id = "E002" -> check_duplicate_roles(workflow)
      [] rule.rule_id = "E003" -> check_lightweight_checkpoint(workflow)
      [] rule.rule_id = "E004" -> check_fan_out_no_limit(workflow)
      [] rule.rule_id = "S001" -> check_shell_injection(workflow)
      [] rule.rule_id = "S002" -> check_hardcoded_paths(workflow)
      [] rule.rule_id = "S003" -> check_input_validation(workflow)
      [] rule.rule_id = "S004" -> check_mcp_no_server(workflow)

get_all_rules == _RULE_REGISTRY

\* A variant of get_rules_by_category that ignores the category.
get_rules_by_category_any(category) == _RULE_REGISTRY

get_rules_by_category(category) ==
    SelectSeq(_RULE_REGISTRY, LAMBDA r : r.category = category)

\* sum(1 for f in findings if f.severity == severity)
count_severity(findings, severity) ==
    Cardinality({i \in 1..Len(findings) : findings[i].severity = severity})

\* Mutant: the score is not floored at zero.
lint_score_no_floor(findings) ==
    100 - SeqSum([i \in 1..Len(findings) |->
                     DictGet(SEVERITY_DEDUCTIONS, findings[i].severity, 0)])

\* run_lint, lines 55-58: the score of a findings list.
lint_score(findings) ==
    Max(0, 100 - SeqSum([i \in 1..Len(findings) |->
                            DictGet(SEVERITY_DEDUCTIONS, findings[i].severity, 0)]))

\* run_lint, lines 49-67: the report over the findings kept by the filter.
lint_report(workflow, findings) ==
    [workflow_name |-> workflow.name,
     score |-> lint_score(findings),
     findings |-> findings,
     error_count |-> count_severity(findings, "error"),
     warning_count |-> count_severity(findings, "warning"),
     info_count |-> count_severity(findings, "info")]

\* A variant of run_lint that scores and counts before the severity filter.
run_lint_scored_first(workflow, category, severity) ==
    LET rules == IF category # None THEN get_rules_by_category(category[1])
                 ELSE get_all_rules
        all_findings == Flatten([i \in 1..Len(rules) |-> rule_func(rules[i], workflow)])
        findings == IF severity # None
                    THEN SelectSeq(all_findings, LAMBDA f : f.severity = severity[1])
                    ELSE all_findings
    IN Ok([lint_report(workflow, all_findings) EXCEPT !.findings = findings])

\* run_lint(workflow, category=None, severity=None) -> LintReport
run_lint(workflow, category, severity) ==
    LET rules == IF category # None THEN get_rules_by_category(category[1])
                 ELSE get_all_rules
        all_findings == Flatten([i \in 1..Len(rules) |-> rule_func(rules[i], workflow)])
        findings == IF severity # None
                    THEN SelectSeq(all_findings, LAMBDA f : f.severity = severity[1])
                    ELSE all_findings
    IN Ok(lint_report(workflow, findings))

-----------------------------------------------------------------------------
(* Python built-ins the parsers lean on                                    *)

UpperCase ==
    <<"A", "B", "C", "D", "E", "F", "G", "H", "I", "J", "K", "L", "M",
      "N", "O", "P", "Q", "R", "S", "T", "U", "V", "W", "X", "Y", "Z">>

LowerCase ==
    <<"a", "b", "c", "d", "e", "f", "g", "h", "i", "j", "k", "l", "m",
      "n", "o", "p", "q", "r", "s", "t", "u", "v", "w", "x", "y", "z">>

LowerChar(c) ==
    IF \E i \in 1..Len(UpperCase) : UpperCase[i] = c
    THEN LowerCase[CHOOSE i \in 1..Len(UpperCase) : UpperCase[i] = c]
    ELSE c

\* s.lower()
RECURSIVE Lower(_)
Lower(s) ==
    IF s = "" THEN "" ELSE LowerChar(SubSeq(s, 1, 1)) \o Lower(SubSeq(s, 2, Len(s)))

Digits == <<"0", "1", "2", "3", "4", "5", "6", "7", "8", "9">>

IsDigit(c) == \E i \in 1..Len(Digits) : Digits[i] = c

DigitValue(c) == (CHOOSE i \in 1..Len(Digits) : Digits[i] = c) - 1

\* Does s read as a decimal integer: digits, after an optional minus sign?
\* (Python also takes a plus sign, blanks around the number and underscores
\* between digits.)
IsIntString(s) ==
    LET digits == IF Len(s) > 0 /\ SubSeq(s, 1, 1) = "-" THEN SubSeq(s, 2, Len(s)) ELSE s
    IN Len(digits) > 0 /\ \A i \in 1..Len(digits) : IsDigit(SubSeq(digits, i, i))

RECURSIVE DigitsToInt(_)
DigitsToInt(s) ==
    IF s = "" THEN 0
    ELSE 10 * DigitsToInt(SubSeq(s, 1, Len(s) - 1)) + DigitValue(SubSeq(s, Len(s), Len(s)))

StrToInt(s) ==
    IF SubSeq(s, 1, 1) = "-" THEN -DigitsToInt(SubSeq(s, 2, Len(s))) ELSE DigitsToInt(s)

\* int(v)
PyInt(v) ==
    CASE v.k = "int" -> Ok(v.n)
      [] v.k = "bool" -> Ok(IF v.b THEN 1 ELSE 0)
      [] v.k = "str" -> IF IsIntString(v.s) THEN Ok(StrToInt(v.s)) ELSE Raise("ValueError")
      [] OTHER -> Raise("TypeError")

\* a or b
PyOr(a, b) == IF PyTruthy(a) THEN a ELSE b

\* s[:n] on a string.
Prefix(s, n) == SubSeq(s, 1, Min(n, Len(s)))

\* Can a for loop run over v?
Iterable(v) == v.k \in {"list", "str", "map"}

\* What a for loop over v yields: the items of a list, the keys of a mapping,
\* the characters of a string.
IterItems(v) ==
    CASE v.k = "list" -> v.items
      [] v.k = "map" -> [i \in 1..Len(v.kv) |-> VStr(v.kv[i][1])]
      [] v.k = "str" -> [i \in 1..Len(v.s) |-> VStr(SubSeq(v.s, i, i))]

AllOk(rs) == \A i \in 1..Len(rs) : rs[i].ok

\* The exception that ends a loop over calls: the first one raised.
FirstError(rs) == rs[CHOOSE i \in 1..Len(rs) : ~rs[i].ok /\ \A j \in 1..(i - 1) : rs[j].ok]

Values(rs) == [i \in 1..Len(rs) |-> rs[i].value]

-----------------------------------------------------------------------------
(* models.py: what pydantic accepts for the fields of ParsedStep and       *)
(* ParsedWorkflow (lax mode)                                               *)

\* str | None
str_or_none_ok(v) == v.k \in {"null", "str"}

as_opt_str(v) == IF v.k = "str" THEN Some(v.s) ELSE None

\* int | None: an integer, or a string that reads as one.
int_or_none_ok(v) ==
    v.k \in {"null", "int", "bool"} \/ (v.k = "str" /\ IsIntString(v.s))

as_opt_int(v) == IF v.k = "null" THEN None ELSE Some(PyInt(v).value)

\* dict[str, Any]
dict_ok(v) == v.k = "map"

\* ParsedStep(**f): the validated step, or the ValidationError.
new_ParsedStep(f) ==
    IF /\ str_or_none_ok(f.provider) /\ str_or_none_ok(f.model)
       /\ str_or_none_ok(f.role) /\ str_or_none_ok(f.on_failure)
       /\ int_or_none_ok(f.estimated_tokens) /\ int_or_none_ok(f.timeout_seconds)
    THEN Ok([id |-> f.id, step_type |-> f.step_type,
             provider |-> as_opt_str(f.provider), model |-> as_opt_str(f.model),
             role |-> as_opt_str(f.role),
             estimated_tokens |-> as_opt_int(f.estimated_tokens),
             on_failure |-> as_opt_str(f.on_failure),
             max_retries |-> f.max_retries,
             timeout_seconds |-> as_opt_int(f.timeout_seconds),
             has_condition |-> f.has_condition, has_fallback |-> f.has_fallback,
             depends_on |-> f.depends_on, nested_steps |-> f.nested_steps,
             raw_params |-> f.raw_params])
    ELSE Raise("ValidationError")

\* The keyword arguments a parser leaves at their defaults.
StepDefaults ==
    [provider |-> VNull, model |-> VNull, role |-> VNull, estimated_tokens |-> VNull,
     on_failure |-> VNull, max_retries |-> 0, timeout_seconds |-> VNull,
     has_condition |-> FALSE, has_fallback |-> FALSE, depends_on |-> <<>>,
     nested_steps |-> <<>>, raw_params |-> <<>>]

\* ParsedWorkflow(**f): the validated workflow, or the ValidationError.
\* outputs is list[str]: an item that is not a string is refused.
new_ParsedWorkflow(f) ==
    IF /\ int_or_none_ok(f.token_budget) /\ int_or_none_ok(f.timeout_seconds)
       /\ dict_ok(f.inputs) /\ dict_ok(f.metadata)
       /\ \A i \in 1..Len(f.outputs) : f.outputs[i].k = "str"
    THEN Ok([name |-> f.name, format |-> f.format,
             token_budget |-> as_opt_int(f.token_budget), steps |-> f.steps,
             inputs |-> f.inputs.kv,
             outputs |-> [i \in 1..Len(f.outputs) |-> f.outputs[i].s],
             metadata |-> f.metadata.kv])
    ELSE Raise("ValidationError")

-----------------------------------------------------------------------------
(* parsers/__init__.py: format detection                                   *)

_GORGON_STEP_TYPES ==
    {"claude_code", "openai", "shell", "parallel", "checkpoint", "fan_out",
     "fan_in", "map_reduce", "branch", "loop", "mcp_tool"}

\* detect_format, lines 48-52: the loop over the steps from item i on.
\* Membership in a set hashes the value: a list or a mapping under 'type'
\* raises TypeError (unhashable type).
RECURSIVE detect_steps(_, _)
detect_steps(steps, i) ==
    IF i > Len(steps) THEN Ok("generic")
    ELSE IF steps[i].k # "map" THEN detect_steps(steps, i + 1)
    ELSE LET type == Get(steps[i].kv, "type", VNull)
         IN IF type.k \in {"list", "map"} THEN Raise("TypeError")
            ELSE IF type.k = "str" /\ type.s \in _GORGON_STEP_TYPES THEN Ok("gorgon")
            ELSE detect_steps(steps, i + 1)

\* detect_format(raw_) -> WorkflowFormat; raw_ is the item list of the raw mapping.
detect_format(raw_) ==
    LET meta == Get(raw_, "metadata", VMap(<<>>))
        steps == Get(raw_, "steps", VList(<<>>))
    IN IF HasKey(raw_, "agents") /\ HasKey(raw_, "tasks") THEN Ok("crewai")
       ELSE IF HasKey(raw_, "nodes") \/ HasKey(raw_, "edges") THEN Ok("langchain")
       ELSE IF meta.k = "map" /\ Contains(Lower(PyStr(meta)), "langgraph") THEN Ok("langchain")
       ELSE IF steps.k = "list" /\ steps.items # <<>> THEN detect_steps(steps.items, 1)
       ELSE Ok("generic")

-----------------------------------------------------------------------------
(* parsers/gorgon.py                                                       *)

_TYPE_MAP ==
    [claude_code |-> "llm", openai |-> "llm", shell |-> "shell",
     parallel |-> "parallel", checkpoint |-> "checkpoint", fan_out |-> "fan_out",
     fan_in |-> "fan_in", map_reduce |-> "map_reduce", branch |-> "branch",
     loop |-> "loop", mcp_tool |-> "mcp_tool"]

STEP_TYPE_PROVIDER_MAP == [claude_code |-> "anthropic", openai |-> "openai"]

LLM_STEP_TYPES == {"claude_code", "openai"}

NestedKeys == <<"steps", "step_template", "map_step", "reduce_step">>

\* A variant of nested_raw_of in which the step's own value comes first.
nested_raw_step_first(params, raw_, key) ==
    PyOr(Get(raw_, key, VNull), Get(params, key, VNull))

\* _parse_step, line 59: params.get(key) or raw.get(key)
nested_raw_of(params, raw_, key) ==
    PyOr(Get(params, key, VNull), Get(raw_, key, VNull))

\* _parse_step(raw_) -> ParsedStep, or the exception it raises. A 'params'
\* value that is truthy and not a mapping has no get (AttributeError).
RECURSIVE _parse_step(_)
_parse_step(raw_) ==
    LET raw_type == PyStr(Get(raw_, "type", VStr("shell")))
        params == PyOr(Get(raw_, "params", VMap(<<>>)), VMap(<<>>))
    IN IF params.k # "map" THEN Raise("AttributeError")
       ELSE
       LET is_llm == raw_type \in LLM_STEP_TYPES
           depends_on_raw == Get(raw_, "depends_on", VList(<<>>))
           depends_on ==
               IF depends_on_raw.k = "str" THEN <<depends_on_raw.s>>
               ELSE IF depends_on_raw.k = "list"
               THEN [i \in 1..Len(depends_on_raw.items) |-> PyStr(depends_on_raw.items[i])]
               ELSE <<>>
           nested_of(key) ==
               LET nested_raw == nested_raw_of(params.kv, raw_, key)
               IN IF nested_raw.k = "list"
                  THEN LET dicts == SelectSeq(nested_raw.items, LAMBDA s : s.k = "map")
                       IN [i \in 1..Len(dicts) |-> _parse_step(dicts[i].kv)]
                  ELSE IF nested_raw.k = "map" THEN <<_parse_step(nested_raw.kv)>>
                  ELSE <<>>
           nested == Flatten([n \in 1..Len(NestedKeys) |-> nested_of(NestedKeys[n])])
           max_retries == PyInt(Get(raw_, "max_retries", VInt(0)))
       IN IF ~AllOk(nested) THEN FirstError(nested)
          ELSE IF ~max_retries.ok THEN max_retries
          ELSE new_ParsedStep(
                 [id |-> PyStr(Get(raw_, "id", VStr("unknown"))),
                  step_type |-> DictGet(_TYPE_MAP, raw_type, "shell"),
                  provider |-> IF is_llm THEN VStr(STEP_TYPE_PROVIDER_MAP[raw_type]) ELSE VNull,
                  model |-> IF is_llm THEN Get(params.kv, "model", VNull) ELSE VNull,
                  role |-> Get(params.kv, "role", VNull),
                  estimated_tokens |-> Get(params.kv, "estimated_tokens", VNull),
                  on_failure |-> Get(raw_, "on_failure", VNull),
                  max_retries |-> max_retries.value,
                  timeout_seconds |-> Get(raw_, "timeout_seconds", VNull),
                  has_condition |-> HasKey(raw_, "condition"),
                  has_fallback |-> HasKey(raw_, "fallback"),
                  depends_on |-> depends_on,
                  nested_steps |-> Values(nested),
                  raw_params |-> params.kv])

\* parse_gorgon(raw_) -> ParsedWorkflow, or the exception it raises.
parse_gorgon(raw_) ==
    LET steps_raw == Get(raw_, "steps", VList(<<>>))
        outputs_raw == Get(raw_, "outputs", VList(<<>>))
    IN IF ~Iterable(steps_raw) THEN Raise("TypeError")
       ELSE
       LET dicts == SelectSeq(IterItems(steps_raw), LAMBDA s : s.k = "map")
           steps == [i \in 1..Len(dicts) |-> _parse_step(dicts[i].kv)]
       IN IF ~AllOk(steps) THEN FirstError(steps)
          ELSE new_ParsedWorkflow(
                 [name |-> PyStr(Get(raw_, "name", VStr("unnamed"))),
                  format |-> "gorgon",
                  token_budget |-> Get(raw_, "token_budget", VNull),
                  timeout_seconds |-> Get(raw_, "timeout_seconds", VNull),
                  steps |-> Values(steps),
                  inputs |-> Get(raw_, "inputs", VMap(<<>>)),
                  outputs |-> IF outputs_raw.k = "list"
                              THEN [i \in 1..Len(outputs_raw.items) |->
                                       VStr(PyStr(outputs_raw.items[i]))]
                              ELSE <<>>,
                  metadata |-> Get(raw_, "metadata", VMap(<<>>))])

-----------------------------------------------------------------------------
(* parsers/crewai.py                                                       *)

\* _parse_agent(agent, index) -> ParsedStep, or the exception it raises.
_parse_agent(agent, index) ==
    LET role == PyStr(Get(agent, "role", VStr("")))
    IN new_ParsedStep(
         [StepDefaults EXCEPT
            !.provider = Get(agent, "llm_provider", VNull),
            !.model = PyOr(Get(agent, "llm", VNull), Get(agent, "model", VNull)),
            !.role = IF role # "" THEN VStr(role) ELSE VNull,
            !.estimated_tokens = Get(agent, "max_tokens", VNull),
            !.raw_params = agent]
         @@ [id |-> PyStr(Get(agent, "name",
                              Get(agent, "role", VStr("agent_" \o ToString(index))))),
             step_type |-> "llm"])

\* A variant of description_prefix that does not cut the description.
description_uncut(task, index) ==
    LET description == Get(task, "description", VStr("task_" \o ToString(index)))
    IN IF description.k \in {"str", "list"} THEN Ok(description) ELSE Raise("TypeError")

\* task.get("description", f"task_{index}")[:40], evaluated before the
\* 'name' lookup it is the default of: a string is cut to 40 characters, a
\* list to 40 items, and any other value cannot be sliced (TypeError; a
\* mapping raises KeyError from Python 3.12 on).
description_prefix(task, index) ==
    LET description == Get(task, "description", VStr("task_" \o ToString(index)))
    IN CASE description.k = "str" -> Ok(VStr(Prefix(description.s, 40)))
         [] description.k = "list" ->
               Ok(VList(SubSeq(description.items, 1, Min(40, Len(description.items)))))
         [] OTHER -> Raise("TypeError")

\* _parse_task(task, index) -> ParsedStep, or the exception it raises.
_parse_task(task, index) ==
    LET fallback == description_prefix(task, index)
        agent_ref == Get(task, "agent", VNull)
    IN IF ~fallback.ok THEN fallback
       ELSE new_ParsedStep(
              [StepDefaults EXCEPT
                 !.role = Get(task, "role", VNull),
                 !.estimated_tokens = Get(task, "max_tokens", VNull),
                 !.depends_on = IF PyTruthy(agent_ref) THEN <<PyStr(agent_ref)>> ELSE <<>>,
                 !.raw_params = task]
              @@ [id |-> PyStr(Get(task, "name", fallback.value)),
                  step_type |-> "llm"])

\* parse_crewai(raw) -> ParsedWorkflow, or the exception it raises. index is
\* the position in the list, from 0, non-mapping entries counted.
parse_crewai(raw_) ==
    LET agents_raw == Get(raw_, "agents", VList(<<>>))
        tasks_raw == Get(raw_, "tasks", VList(<<>>))
    IN IF ~Iterable(agents_raw) THEN Raise("TypeError")
       ELSE
       LET agent_items == IterItems(agents_raw)
           agent_at == SelectSeq([i \in 1..Len(agent_items) |-> i],
                                 LAMBDA i : agent_items[i].k = "map")
           agents == [n \in 1..Len(agent_at) |->
                         _parse_agent(agent_items[agent_at[n]].kv, agent_at[n] - 1)]
       IN IF ~AllOk(agents) THEN FirstError(agents)
          ELSE IF ~Iterable(tasks_raw) THEN Raise("TypeError")
          ELSE
          LET task_items == IterItems(tasks_raw)
              task_at == SelectSeq([i \in 1..Len(task_items) |-> i],
                                   LAMBDA i : task_items[i].k = "map")
              tasks == [n \in 1..Len(task_at) |->
                           _parse_task(task_items[task_at[n]].kv, task_at[n] - 1)]
          IN IF ~AllOk(tasks) THEN FirstError(tasks)
             ELSE new_ParsedWorkflow(
                    [name |-> PyStr(Get(raw_, "name", Get(raw_, "crew", VStr("unnamed-crew")))),
                     format |-> "crewai",
                     token_budget |-> PyOr(Get(raw_, "token_budget", VNull),
                                           Get(raw_, "max_tokens", VNull)),
                     timeout_seconds |-> VNull,
                     steps |-> Values(agents) \o Values(tasks),
                     inputs |-> Get(raw_, "inputs", VMap(<<>>)),
                     outputs |-> <<>>,
                     metadata |-> Get(raw_, "metadata", VMap(<<>>))])

-----------------------------------------------------------------------------
(* parsers/langchain.py                                                    *)

\* _node_to_step(node, index) -> ParsedStep, or the exception it raises.
_node_to_step(node, index) ==
    LET node_type == Lower(PyStr(Get(node, "type", VStr(""))))
    IN new_ParsedStep(
         [StepDefaults EXCEPT
            !.provider = Get(node, "provider", VNull),
            !.model = Get(node, "model", VNull),
            !.role = Get(node, "role", VNull),
            !.estimated_tokens = Get(node, "max_tokens", VNull),
            !.raw_params = node]
         @@ [id |-> PyStr(Get(node, "id",
                              Get(node, "name", VStr("node_" \o ToString(index))))),
             step_type |-> IF node_type \in {"tool", "function"} THEN "shell"
                           ELSE IF node_type \in {"branch", "conditional"} THEN "branch"
                           ELSE IF node_type = "parallel" THEN "parallel"
                           ELSE "llm"])

\* A variant of wire_edges that appends the source without looking whether
\* the target already depends on it.
RECURSIVE wire_edges_repeating(_, _, _)
wire_edges_repeating(steps, edges, i) ==
    IF i > Len(edges) THEN steps
    ELSE IF edges[i].k # "map" THEN wire_edges_repeating(steps, edges, i + 1)
    ELSE LET edge == edges[i].kv
             source == PyStr(Get(edge, "source", Get(edge, "from", VStr(""))))
             target == PyStr(Get(edge, "target", Get(edge, "to", VStr(""))))
             step_ids == {steps[n].id : n \in 1..Len(steps)}
             wired == [n \in 1..Len(steps) |->
                          IF steps[n].id = target
                          THEN [steps[n] EXCEPT !.depends_on = Append(@, source)]
                          ELSE steps[n]]
         IN wire_edges_repeating(
                IF source \in step_ids /\ target \in step_ids THEN wired ELSE steps,
                edges, i + 1)

\* parse_langchain, lines 50-57: the steps after the edges from i on are
\* wired.
RECURSIVE wire_edges(_, _, _)
wire_edges(steps, edges, i) ==
    IF i > Len(edges) THEN steps
    ELSE IF edges[i].k # "map" THEN wire_edges(steps, edges, i + 1)
    ELSE LET edge == edges[i].kv
             source == PyStr(Get(edge, "source", Get(edge, "from", VStr(""))))
             target == PyStr(Get(edge, "target", Get(edge, "to", VStr(""))))
             step_ids == {steps[n].id : n \in 1..Len(steps)}
             wired == [n \in 1..Len(steps) |->
                          IF steps[n].id = target /\ source \notin Range(steps[n].depends_on)
                          THEN [steps[n] EXCEPT !.depends_on = Append(@, source)]
                          ELSE steps[n]]
         IN wire_edges(IF source \in step_ids /\ target \in step_ids THEN wired ELSE steps,
                       edges, i + 1)

\* parse_langchain(raw) -> ParsedWorkflow, or the exception it raises.
parse_langchain(raw_) ==
    LET nodes_raw == Get(raw_, "nodes", VList(<<>>))
        edges == Get(raw_, "edges", VList(<<>>))
    IN IF ~Iterable(nodes_raw) THEN Raise("TypeError")
       ELSE
       LET node_items == IterItems(nodes_raw)
           node_at == SelectSeq([i \in 1..Len(node_items) |-> i],
                                LAMBDA i : node_items[i].k = "map")
           nodes == [n \in 1..Len(node_at) |->
                        _node_to_step(node_items[node_at[n]].kv, node_at[n] - 1)]
       IN IF ~AllOk(nodes) THEN FirstError(nodes)
          ELSE IF ~Iterable(edges) THEN Raise("TypeError")
          ELSE new_ParsedWorkflow(
                 [name |-> PyStr(Get(raw_, "name", Get(raw_, "graph", VStr("unnamed-graph")))),
                  format |-> "langchain",
                  token_budget |-> Get(raw_, "token_budget", VNull),
                  timeout_seconds |-> VNull,
                  steps |-> wire_edges(Values(nodes), IterItems(edges), 1),
                  inputs |-> Get(raw_, "inputs", VMap(<<>>)),
                  outputs |-> <<>>,
                  metadata |-> Get(raw_, "metadata", VMap(<<>>))])

-----------------------------------------------------------------------------
(* parsers/generic.py                                                      *)

_guess_step_type(config) ==
    IF HasKey(config, "command") \/ HasKey(config, "cmd") THEN "shell"
    ELSE IF HasKey(config, "prompt") \/ HasKey(config, "model") \/ HasKey(config, "llm")
    THEN "llm"
    ELSE IF HasKey(config, "steps") /\ Lookup(config, "steps").k = "list" THEN "parallel"
    ELSE "llm"

\* _parse_generic_step(step_id, config) -> ParsedStep, or the exception.
_parse_generic_step(step_id, config) ==
    LET max_retries == PyInt(Get(config, "max_retries", VInt(0)))
    IN IF ~max_retries.ok THEN max_retries
       ELSE new_ParsedStep(
              [StepDefaults EXCEPT
                 !.provider = Get(config, "provider", VNull),
                 !.model = Get(config, "model", VNull),
                 !.role = Get(config, "role", VNull),
                 !.estimated_tokens = PyOr(Get(config, "estimated_tokens", VNull),
                                           Get(config, "max_tokens", VNull)),
                 !.on_failure = PyOr(Get(config, "on_failure", VNull),
                                     Get(config, "on_error", VNull)),
                 !.max_retries = max_retries.value,
                 !.timeout_seconds = PyOr(Get(config, "timeout", VNull),
                                          Get(config, "timeout_seconds", VNull)),
                 !.raw_params = config]
              @@ [id |-> step_id, step_type |-> _guess_step_type(config)])

\* parse_generic, lines 47-50 and 62-65: the steps of the mapping items of a
\* list; an item without 'id' and 'name' is named key_<position from 0>.
generic_list_steps(items, key) ==
    LET at == SelectSeq([i \in 1..Len(items) |-> i], LAMBDA i : items[i].k = "map")
    IN [n \in 1..Len(at) |->
           LET item == items[at[n]].kv
           IN _parse_generic_step(
                PyStr(Get(item, "id",
                          Get(item, "name", VStr(key \o "_" \o ToString(at[n] - 1))))),
                item)]

\* parse_generic, lines 53-55: the steps of a name -> config mapping.
generic_mapping_steps(kv) ==
    LET at == SelectSeq([i \in 1..Len(kv) |-> i], LAMBDA i : kv[i][2].k = "map")
    IN [n \in 1..Len(at) |-> _parse_generic_step(kv[at[n]][1], kv[at[n]][2].kv)]

\* parse_generic(raw) -> ParsedWorkflow, or the exception it raises. The
\* loop over ("agents", "tasks", "pipeline") ends with an unconditional
\* break, so it looks at "agents" only.
parse_generic(raw_) ==
    LET steps_raw == Get(raw_, "steps", VList(<<>>))
        from_steps == IF steps_raw.k = "list" THEN generic_list_steps(steps_raw.items, "step")
                      ELSE IF steps_raw.k = "map" THEN generic_mapping_steps(steps_raw.kv)
                      ELSE <<>>
        items == Get(raw_, "agents", VList(<<>>))
        from_agents == IF from_steps = <<>> /\ items.k = "list"
                       THEN generic_list_steps(items.items, "agents")
                       ELSE <<>>
        steps == from_steps \o from_agents
        outputs_raw == Get(raw_, "outputs", VNull)
    IN IF ~AllOk(steps) THEN FirstError(steps)
       ELSE new_ParsedWorkflow(
              [name |-> PyStr(Get(raw_, "name", Get(raw_, "workflow", VStr("unnamed")))),
               format |-> "generic",
               token_budget |-> PyOr(Get(raw_, "token_budget", VNull),
                                     Get(raw_, "budget", VNull)),
               timeout_seconds |-> VNull,
               steps |-> Values(steps),
               inputs |-> Get(raw_, "inputs", VMap(<<>>)),
               outputs |-> IF outputs_raw.k = "list" THEN outputs_raw.items ELSE <<>>,
               metadata |-> Get(raw_, "metadata", VMap(<<>>))])

-----------------------------------------------------------------------------
(* Bounded inputs of the lint engine                                       *)

MaxLintSteps == 3

WithParams(s, kv) == [s EXCEPT !.raw_params = kv]

LintStepPool ==
    {[WithRole(ParsedStep("plan", "llm"), "planner") EXCEPT
          !.raw_params = <<<<"prompt", VStr("Plan the work")>>,
                           <<"outputs", VList(<<VStr("plan")>>)>>>>],
     [WithTokens(WithRole(ParsedStep("build", "llm"), "builder"), 15000) EXCEPT
          !.on_failure = Some("retry"),
          !.raw_params = <<<<"prompt", VStr("Build ${plan}")>>>>],
     [WithRole(ParsedStep("review", "llm"), "reviewer") EXCEPT
          !.on_failure = Some("skip"), !.depends_on = <<"build">>],
     [WithTokens(ParsedStep("deploy", "shell"), 20000) EXCEPT
          !.on_failure = Some("abort"),
          !.raw_params = <<<<"command", VStr("cd ${path} && /usr/bin/make")>>>>],
     [ParsedStep("run_tests", "shell") EXCEPT
          !.timeout_seconds = Some(300), !.on_failure = Some("abort"),
          !.has_fallback = TRUE,
          !.raw_params = <<<<"command", VStr("pytest tests/")>>>>],
     ParsedStep("cp", "checkpoint"),
     ParsedStep("fan", "fan_out"),
     WithParams(ParsedStep("tool", "mcp_tool"), <<<<"server", VStr("")>>>>)}

LintBudgets == {None, Some(10000), Some(150000)}

RequiredUntyped == <<"path", VMap(<<<<"required", VBool(TRUE)>>>>)>>
RequiredTyped == <<"path", VMap(<<<<"required", VBool(TRUE)>>, <<"type", VStr("string")>>>>)>>
Scalar == <<"mode", VStr("fast")>>

LintInputs == {<<>>, <<RequiredUntyped>>}

LintWorkflows ==
    {ParsedWorkflow("wf", "gorgon", b, ss, inputs) :
        b \in LintBudgets, ss \in SeqsUpTo(LintStepPool, MaxLintSteps),
        inputs \in LintInputs}

CategoryArgs == {None} \cup {Some(c) : c \in RuleCategory}
SeverityArgs == {None} \cup {Some(s) : s \in Severity}

InitLint ==
    /\ ProcessUnmodelled
    /\ raw = Absent
    /\ step = Absent
    /\ call = NoCall
    /\ ret = NoRet
    /\ wf \in LintWorkflows

RunLint ==
    \E category \in CategoryArgs, severity \in SeverityArgs :
        /\ call = NoCall
        /\ wf # Absent
        /\ call' = [op |-> "run_lint", category |-> category, severity |-> severity]
        /\ ret' = run_lint(wf, category, severity)
        /\ UNCHANGED <<raw, wf, step, process>>

NextLint == RunLint

SpecLint == InitLint /\ [][NextLint]_vars

-----------------------------------------------------------------------------
(* Bounded inputs of an audit (estimate and lint) of a short workflow      *)

MaxAuditSteps == 1

AuditBudgets == {None, Some(-1), Some(0), Some(150000)}
AuditInputs == {<<>>, <<RequiredUntyped>>, <<RequiredTyped>>, <<Scalar>>}
AuditMetadata == {<<>>, <<<<"engine", VStr("LangGraph")>>>>}

AuditWorkflows ==
    {[ParsedWorkflow("wf", "generic", b, ss, inputs) EXCEPT !.metadata = metadata] :
        b \in AuditBudgets, ss \in SeqsUpTo(EstStepPool, MaxAuditSteps),
        inputs \in AuditInputs, metadata \in AuditMetadata}

InitAudit ==
    /\ ProcessUnmodelled
    /\ raw = Absent
    /\ step = Absent
    /\ call = NoCall
    /\ ret = NoRet
    /\ wf \in AuditWorkflows

NextAudit == RunLint \/ EstimateWorkflow

SpecAudit == InitAudit /\ [][NextAudit]_vars

-----------------------------------------------------------------------------
(* Claims about the lint engine and about empty workflows                  *)

\* A call with no filters.
Unfiltered == call.category = None /\ call.severity = None

\* C1 as stated: for every workflow whose top-level step list is empty,
\* whatever its budget, inputs and metadata, estimate_workflow returns
\* total_tokens = 0 and total_cost_usd = 0.0, and run_lint with no filters
\* returns score = 100 and an empty findings list.
C1_AsStated ==
    wf # Absent /\ wf.steps = <<>> =>
        /\ Returned("estimate_workflow") =>
              ret.value.total_tokens = 0 /\ ret.value.total_cost_usd = 0
        /\ Returned("run_lint") /\ Unfiltered =>
              ret.value.score = 100 /\ ret.value.findings = <<>>

\* The workflow-level rules that look at no step: a missing budget (B001), a
\* budget below the zero total (B003) and a required input without a type
\* (S003).
QuietHeader(workflow) ==
    /\ workflow.token_budget # None
    /\ workflow.token_budget[1] >= 0
    /\ \A i \in 1..Len(workflow.inputs) :
          LET config == workflow.inputs[i][2]
          IN config.k = "map" /\ PyTruthy(Get(config.kv, "required", VBool(FALSE)))
                => HasKey(config.kv, "type")

\* C1, amended: for every workflow whose top-level step list is empty,
\* estimate_workflow returns total_tokens = 0
\* and total_cost_usd = 0.0 whatever the budget, inputs and metadata; run_lint
\* with no filters returns score = 100 and an empty findings list exactly
\* when the workflow declares a token_budget that is not negative and every
\* required input mapping has a type, and a lower score with the
\* workflow-level findings B001, B003 or S003 otherwise.
C1_EmptyWorkflow ==
    wf # Absent /\ wf.steps = <<>> =>
        /\ Returned("estimate_workflow") =>
              ret.value.total_tokens = 0 /\ ret.value.total_cost_usd = 0
        /\ Returned("run_lint") /\ Unfiltered =>
              /\ QuietHeader(wf) <=> ret.value.score = 100
              /\ QuietHeader(wf) <=> ret.value.findings = <<>>
              /\ \A i \in 1..Len(ret.value.findings) :
                    /\ ret.value.findings[i].rule_id \in {"B001", "B003", "S003"}
                    /\ ret.value.findings[i].step_id = None

C1_Witness ==
    /\ wf # Absent /\ wf.steps = <<>>
    /\ Returned("run_lint") /\ Unfiltered
    /\ wf.token_budget = Some(150000) /\ wf.inputs = <<RequiredTyped>>
    /\ wf.metadata # <<>>
    /\ ret.value.score = 100 /\ ret.value.findings = <<>>

\* C2: for every workflow and every combination of category and severity
\* filter, the report of run_lint is recomputable from its own findings
\* list: score = max(0, 100 - 10*errors - 5*warnings - 2*infos) over the
\* returned findings, so 0 <= score <= 100, and error_count, warning_count
\* and info_count each equal the number of returned findings of that
\* severity.
C2_ReportRecomputable ==
    Returned("run_lint") =>
        LET report == ret.value
            errors == Cardinality({i \in 1..Len(report.findings) :
                                      report.findings[i].severity = "error"})
            warnings == Cardinality({i \in 1..Len(report.findings) :
                                        report.findings[i].severity = "warning"})
            infos == Cardinality({i \in 1..Len(report.findings) :
                                     report.findings[i].severity = "info"})
            raw_score == 100 - 10 * errors - 5 * warnings - 2 * infos
        IN /\ report.score = IF raw_score < 0 THEN 0 ELSE raw_score
           /\ report.score \in 0..100
           /\ report.error_count = errors
           /\ report.warning_count = warnings
           /\ report.info_count = infos
           /\ errors + warnings + infos = Len(report.findings)
           /\ \A i \in 1..Len(report.findings) :
                 /\ call.severity # None => report.findings[i].severity = call.severity[1]
                 /\ call.category # None => report.findings[i].category = call.category[1]

\* A report whose deductions pass 100: the floor is what keeps the score at 0.
C2_Witness ==
    /\ Returned("run_lint") /\ Unfiltered
    /\ ret.value.score = 0
    /\ 10 * ret.value.error_count + 5 * ret.value.warning_count
          + 2 * ret.value.info_count > 100

-----------------------------------------------------------------------------
(* Bounded raw mappings for format detection and the four normalizers     *)

MaxRawItems == 2

\* A key that is absent, or present with one of the values.
Opt(key, values) == {<<>>} \cup {<<<<key, v>>>> : v \in values}

KnownStep == VMap(<<<<"id", VStr("build")>>, <<"type", VStr("shell")>>>>)
UnknownStep == VMap(<<<<"id", VStr("ask")>>, <<"type", VStr("prompt")>>>>)
TypelessStep == VMap(<<<<"id", VStr("bare")>>>>)
NumberTypeStep == VMap(<<<<"id", VStr("n")>>, <<"type", VInt(3)>>>>)
NullTypeStep == VMap(<<<<"id", VStr("z")>>, <<"type", VNull>>>>)
ListTypeStep == VMap(<<<<"id", VStr("l")>>, <<"type", VList(<<VStr("shell")>>)>>>>)
MapTypeStep == VMap(<<<<"id", VStr("m")>>, <<"type", VMap(<<<<"name", VStr("shell")>>>>)>>>>)

DetectSteps ==
    {VList(<<>>), VList(<<KnownStep>>), VList(<<UnknownStep>>), VList(<<TypelessStep>>),
     VList(<<VStr("junk"), VInt(1), VNull, VList(<<>>), KnownStep>>),
     VList(<<NumberTypeStep, NullTypeStep>>),
     VList(<<ListTypeStep>>), VList(<<MapTypeStep>>),
     VList(<<ListTypeStep, KnownStep>>), VList(<<KnownStep, ListTypeStep>>),
     VNull, VInt(3), VStr("shell"), VMap(<<<<"build", KnownStep>>>>)}

DetectMetadata ==
    {VMap(<<>>), VMap(<<<<"engine", VStr("LangGraph")>>>>),
     VMap(<<<<"author", VStr("me")>>>>), VStr("langgraph"), VNull, VInt(3),
     VList(<<VStr("langgraph")>>)}

DetectRaws ==
    {a \o k \o n \o e \o m \o s :
        a \in Opt("agents", {VList(<<VMap(<<<<"role", VStr("writer")>>>>)>>)}),
        k \in Opt("tasks", {VList(<<VMap(<<<<"name", VStr("draft")>>>>)>>)}),
        n \in Opt("nodes", {VList(<<VMap(<<<<"id", VStr("think")>>>>)>>)}),
        e \in Opt("edges", {VList(<<>>)}),
        m \in Opt("metadata", DetectMetadata),
        s \in Opt("steps", DetectSteps)}

\* The list values with at most MaxRawItems items of pool, and the values
\* that are no list.
ListsAndOdd(pool) ==
    {VList(items) : items \in SeqsUpTo(pool, MaxRawItems)} \cup {VNull, VInt(3)}

GorgonItems ==
    {VMap(<<<<"id", VStr("plan")>>, <<"type", VStr("claude_code")>>,
            <<"params", VMap(<<<<"role", VStr("planner")>>,
                               <<"estimated_tokens", VInt(5000)>>,
                               <<"model", VStr("claude-opus-4")>>>>)>>,
            <<"on_failure", VStr("abort")>>, <<"max_retries", VStr("3")>>>>),
     VMap(<<<<"id", VStr("sh")>>, <<"type", VStr("shell")>>, <<"params", VStr("x")>>>>),
     VMap(<<<<"id", VStr("again")>>, <<"type", VStr("shell")>>,
            <<"max_retries", VStr("abc")>>>>),
     VMap(<<<<"id", VStr("ask")>>, <<"type", VStr("openai")>>,
            <<"params", VMap(<<<<"estimated_tokens", VStr("lots")>>>>)>>>>),
     VMap(<<<<"id", VStr("par")>>, <<"type", VStr("parallel")>>,
            <<"depends_on", VStr("plan")>>,
            <<"steps", VList(<<VMap(<<<<"id", VStr("n1")>>,
                                      <<"type", VStr("claude_code")>>>>),
                               VStr("junk")>>)>>>>),
     VMap(<<<<"id", VInt(7)>>, <<"type", VStr("loop")>>,
            <<"depends_on", VList(<<VStr("plan"), VInt(3)>>)>>,
            <<"params", VMap(<<<<"step_template",
                                 VMap(<<<<"id", VStr("body")>>, <<"type", VStr("shell")>>,
                                        <<"timeout_seconds", VInt(60)>>>>)>>>>)>>>>),
     VMap(<<<<"id", VStr("both")>>, <<"type", VStr("map_reduce")>>,
            <<"params", VMap(<<<<"steps", VList(<<VMap(<<<<"id", VStr("p1")>>>>)>>)>>,
                               <<"reduce_step", VMap(<<<<"id", VStr("red")>>>>)>>>>)>>,
            <<"steps", VList(<<VMap(<<<<"id", VStr("r1")>>>>)>>)>>,
            <<"map_step", VMap(<<<<"id", VStr("m1")>>>>)>>>>),
     VMap(<<<<"id", VStr("grp")>>, <<"type", VStr("shell")>>,
            <<"steps", VList(<<VMap(<<<<"id", VStr("inner")>>,
                                      <<"type", VStr("shell")>>>>)>>)>>>>),
     VStr("junk")}

GorgonRaws ==
    {<<<<"name", VStr("pipeline")>>>> \o s \o b \o i :
        s \in Opt("steps", ListsAndOdd(GorgonItems)),
        b \in Opt("token_budget", {VInt(150000), VStr("lots")}),
        i \in Opt("inputs", {VNull, VMap(<<RequiredUntyped>>)})}

AgentItems ==
    {VMap(<<<<"name", VStr("researcher")>>, <<"role", VStr("analyst")>>,
            <<"llm", VStr("gpt-4o")>>, <<"llm_provider", VStr("openai")>>,
            <<"max_tokens", VInt(4000)>>>>),
     VMap(<<<<"role", VStr("writer")>>>>),
     VMap(<<<<"role", VInt(5)>>, <<"max_tokens", VStr("lots")>>>>),
     VStr("junk")}

TaskItems ==
    {VMap(<<<<"name", VStr("research")>>, <<"description", VStr("Find sources")>>,
            <<"agent", VStr("researcher")>>>>),
     VMap(<<<<"description",
             VStr("Write a long report that covers every source in detail")>>>>),
     VMap(<<<<"name", VStr("count")>>, <<"description", VInt(5)>>>>),
     VMap(<<<<"description", VNull>>>>),
     VMap(<<<<"agent", VStr("writer")>>>>),
     VStr("junk")}

Researcher == CHOOSE a \in AgentItems : a.k = "map" /\ HasKey(a.kv, "name")

CrewaiRaws ==
    {<<<<"crew", VStr("press")>>>> \o a \o k :
        a \in Opt("agents", ListsAndOdd(AgentItems)) \ {<<>>},
        k \in {<<<<"tasks", VList(<<>>)>>>>}}
    \cup
    {<<<<"crew", VStr("press")>>>> \o a \o k :
        a \in {<<<<"agents", VList(<<Researcher>>)>>>>},
        k \in Opt("tasks", ListsAndOdd(TaskItems)) \ {<<>>}}

NodeItems ==
    {VMap(<<<<"id", VStr("fetch")>>, <<"type", VStr("Tool")>>>>),
     VMap(<<<<"name", VStr("think")>>, <<"model", VStr("gpt-4o")>>,
            <<"max_tokens", VInt(2000)>>>>),
     VMap(<<<<"type", VStr("parallel")>>>>),
     VMap(<<<<"id", VStr("bad")>>, <<"role", VInt(7)>>>>),
     VStr("junk")}

EdgeItems ==
    {VMap(<<<<"source", VStr("fetch")>>, <<"target", VStr("think")>>>>),
     VMap(<<<<"from", VStr("fetch")>>, <<"to", VStr("think")>>>>),
     VMap(<<<<"source", VStr("ghost")>>, <<"target", VStr("think")>>>>),
     VMap(<<<<"source", VStr("think")>>, <<"target", VStr("think")>>>>),
     VStr("junk")}

Fetch == CHOOSE n \in NodeItems : n.k = "map" /\ Get(n.kv, "id", VNull) = VStr("fetch")
Think == CHOOSE n \in NodeItems : n.k = "map" /\ HasKey(n.kv, "name")

LangchainRaws ==
    {<<<<"graph", VStr("flow")>>>> \o n \o e :
        n \in Opt("nodes", ListsAndOdd(NodeItems)) \ {<<>>},
        e \in Opt("edges", {VNull})}
    \cup
    {<<<<"graph", VStr("flow")>>>> \o n \o e :
        n \in {<<<<"nodes", VList(<<Fetch, Think>>)>>>>},
        e \in Opt("edges", ListsAndOdd(EdgeItems))}

GenericItems ==
    {VMap(<<<<"name", VStr("list")>>, <<"cmd", VStr("ls")>>, <<"timeout", VInt(30)>>>>),
     VMap(<<<<"prompt", VStr("Summarise")>>, <<"max_tokens", VInt(900)>>,
            <<"on_error", VStr("retry")>>, <<"max_retries", VInt(2)>>>>),
     VMap(<<<<"id", VStr("group")>>, <<"steps", VList(<<>>)>>>>)}

GenericRaws ==
    {<<<<"workflow", VStr("misc")>>>> \o s \o a \o p \o o :
        s \in Opt("steps", {VList(items) : items \in SeqsUpTo(GenericItems \cup {VStr("junk")}, MaxRawItems)}
                           \cup {VMap(<<<<"first", VMap(<<<<"command", VStr("ls")>>>>)>>,
                                         <<"second", VStr("junk")>>>>)}),
        a \in Opt("agents", {VList(<<VMap(<<<<"name", VStr("helper")>>>>)>>)}),
        p \in Opt("pipeline", {VList(<<VMap(<<<<"cmd", VStr("make")>>>>)>>)}),
        o \in Opt("outputs", {VList(<<VStr("report")>>), VList(<<VInt(1)>>)})}

RawDomain == DetectRaws \cup GorgonRaws \cup CrewaiRaws \cup LangchainRaws \cup GenericRaws

InitParse ==
    /\ ProcessUnmodelled
    /\ raw \in {VMap(kv) : kv \in RawDomain}
    /\ wf = Absent
    /\ step = Absent
    /\ call = NoCall
    /\ ret = NoRet

DetectFormat ==
    /\ call = NoCall
    /\ raw # Absent
    /\ call' = [op |-> "detect_format"]
    /\ ret' = detect_format(raw.kv)
    /\ UNCHANGED <<raw, wf, step, process>>

ParseGorgon ==
    /\ call = NoCall
    /\ raw # Absent
    /\ call' = [op |-> "parse_gorgon"]
    /\ ret' = parse_gorgon(raw.kv)
    /\ UNCHANGED <<raw, wf, step, process>>

ParseCrewai ==
    /\ call = NoCall
    /\ raw # Absent
    /\ call' = [op |-> "parse_crewai"]
    /\ ret' = parse_crewai(raw.kv)
    /\ UNCHANGED <<raw, wf, step, process>>

ParseLangchain ==
    /\ call = NoCall
    /\ raw # Absent
    /\ call' = [op |-> "parse_langchain"]
    /\ ret' = parse_langchain(raw.kv)
    /\ UNCHANGED <<raw, wf, step, process>>

ParseGeneric ==
    /\ call = NoCall
    /\ raw # Absent
    /\ call' = [op |-> "parse_generic"]
    /\ ret' = parse_generic(raw.kv)
    /\ UNCHANGED <<raw, wf, step, process>>

NextParse == DetectFormat \/ ParseGorgon \/ ParseCrewai \/ ParseLangchain \/ ParseGeneric

SpecParse == InitParse /\ [][NextParse]_vars

-----------------------------------------------------------------------------
(* Claims about format detection and the normalizers                       *)

\* The tag the rule order of C3 gives a raw mapping.
ClaimedFormat(m) ==
    LET meta == Get(m, "metadata", VMap(<<>>))
        steps == Get(m, "steps", VList(<<>>))
    IN IF HasKey(m, "agents") /\ HasKey(m, "tasks") THEN "crewai"
       ELSE IF HasKey(m, "nodes") \/ HasKey(m, "edges") THEN "langchain"
       ELSE IF meta.k = "map" /\ Contains(Lower(PyStr(meta)), "langgraph") THEN "langchain"
       ELSE IF /\ steps.k = "list"
               /\ \E i \in 1..Len(steps.items) :
                     /\ steps.items[i].k = "map"
                     /\ Get(steps.items[i].kv, "type", VNull).k = "str"
                     /\ Get(steps.items[i].kv, "type", VNull).s \in _GORGON_STEP_TYPES
       THEN "gorgon"
       ELSE "generic"

\* C3: detect_format returns, for every raw mapping, the tag of the first
\* rule that matches, in this order: 'agents' and 'tasks' keys -> crewai; a
\* 'nodes' or an 'edges' key -> langchain; a 'metadata' mapping whose text
\* contains 'langgraph' in any letter case -> langchain; a non-empty 'steps'
\* list with at least one mapping item whose 'type' is a known step type ->
\* gorgon; otherwise generic.
C3_RuleOrder ==
    call.op = "detect_format" => ret = Ok(ClaimedFormat(raw.kv))

\* Whenever detect_format returns at all, it returns the tag of that order.
DetectFormatWhenItReturns ==
    Returned("detect_format") => ret.value = ClaimedFormat(raw.kv)

\* C4: detect_format is total: whatever the kind of value under 'metadata',
\* under 'steps', inside the steps list and under a step's 'type', it returns
\* one of the four format tags and does not raise.
C4_DetectTotal ==
    call.op = "detect_format" => ret.ok /\ ret.value \in WorkflowFormat

\* C5: each of the four normalizers returns a workflow for every raw mapping
\* and never raises, whatever odd values the mapping holds.
C5_NormalizersNeverRaise ==
    call.op \in {"parse_gorgon", "parse_crewai", "parse_langchain", "parse_generic"}
        => ret.ok

-----------------------------------------------------------------------------
(* Claims about per-step providers, totals and errors of the estimator     *)

\* C11 as stated: with a caller-supplied provider every step estimate
\* carries it; with none, a step that declares a provider (a model) is
\* estimated with it, and the workflow-level provider (model) is used only
\* for the steps that declare none.
C11_AsStated ==
    Returned("estimate_workflow") =>
        \A i \in 1..Len(wf.steps) :
            LET s == wf.steps[i]
                e == ret.value.steps[i]
            IN IF call.provider # None THEN e.provider = call.provider[1]
               ELSE /\ e.provider = IF s.provider # None THEN s.provider[1]
                                    ELSE ret.value.provider
                    /\ e.model = IF s.model # None THEN s.model[1]
                                 ELSE ret.value.model

\* C11, amended: with a caller-supplied provider every step estimate carries
\* it, whatever the step declares; with none, a step is estimated with its
\* own provider when that is a non-empty string and with the workflow-level
\* provider otherwise (an empty string counts as not declared). In both
\* cases a step is estimated with its own model when that is a non-empty
\* string, and with the workflow-level model otherwise.
C11_StepProviderAndModel ==
    Returned("estimate_workflow") =>
        \A i \in 1..Len(wf.steps) :
            LET s == wf.steps[i]
                e == ret.value.steps[i]
            IN /\ e.provider = IF call.provider # None THEN call.provider[1]
                               ELSE IF TruthyStr(s.provider) THEN s.provider[1]
                               ELSE ret.value.provider
               /\ e.model = IF TruthyStr(s.model) THEN s.model[1] ELSE ret.value.model

\* The caller's provider replaces the one a step declares, and in the same
\* estimate a step keeps the model it declares.
C11_Witness ==
    /\ Returned("estimate_workflow")
    /\ call.provider = Some("ollama")
    /\ \E i \in 1..Len(wf.steps) :
          /\ wf.steps[i].provider = Some("openai")
          /\ ret.value.steps[i].provider = "ollama"
    /\ \E i \in 1..Len(wf.steps) :
          /\ wf.steps[i].model = Some("llama3.3-70b")
          /\ ret.value.steps[i].model = "llama3.3-70b"


\* The token total the estimator gives one top-level step: its own resolved
\* total, or the sum over its direct nested steps when that is greater.
TopLevelTokens(s) ==
    IF s.nested_steps # <<>> /\ NestedSum(s) > _resolve_tokens(s)[1]
    THEN NestedSum(s) ELSE _resolve_tokens(s)[1]

\* C12: estimate_workflow returns exactly one StepEstimate per top-level step,
\* in the workflow's step order; total_tokens is the sum of the estimates'
\* estimated_tokens and total_cost_usd the sum of their cost_usd; a nested
\* step is counted only inside its container's total and has no estimate of
\* its own.
C12_OneEstimatePerTopLevelStep ==
    Returned("estimate_workflow") =>
        LET est == ret.value.steps
        IN /\ Len(est) = Len(wf.steps)
           /\ \A i \in 1..Len(est) :
                 /\ est[i].step_id = wf.steps[i].id
                 /\ est[i].step_type = wf.steps[i].step_type
                 /\ est[i].estimated_tokens = TopLevelTokens(wf.steps[i])
           /\ ret.value.total_tokens =
                 SeqSum([i \in 1..Len(est) |-> est[i].estimated_tokens])
           /\ ret.value.total_cost_usd =
                 SeqSum([i \in 1..Len(est) |-> est[i].cost_usd])
           /\ ret.value.total_tokens =
                 SeqSum([i \in 1..Len(wf.steps) |-> TopLevelTokens(wf.steps[i])])

\* A three-step workflow with a container whose nested steps outweigh it has
\* been estimated at a positive cost.
C12_Witness ==
    /\ Returned("estimate_workflow")
    /\ Len(wf.steps) = MaxEstSteps
    /\ \E i \in 1..Len(wf.steps) :
          /\ wf.steps[i].nested_steps # <<>>
          /\ NestedSum(wf.steps[i]) > _resolve_tokens(wf.steps[i])[1]
          /\ ret.value.steps[i].estimated_tokens = NestedSum(wf.steps[i])
    /\ \E i, j \in 1..Len(wf.steps) : i # j /\ wf.steps[i].id # wf.steps[j].id
    /\ ret.value.total_cost_usd > 0


-----------------------------------------------------------------------------
(* Claims about the linter's filters                                       *)

\* The findings of the registered rules run on workflow in registration
\* order, skipping the rules outside the category when one is given.
FindingsInRegistrationOrder(workflow, category) ==
    Flatten([i \in 1..Len(_RULE_REGISTRY) |->
        IF category = None \/ _RULE_REGISTRY[i].category = category[1]
        THEN rule_func(_RULE_REGISTRY[i], workflow)
        ELSE <<>>])

\* C13: run_lint with a category c executes only the rules registered under
\* c, so every finding has category c; with no category it executes every
\* registered rule; the findings list is the concatenation of the executed
\* rules' findings in registration order (before any severity filter).
C13_CategorySelectsRules ==
    Returned("run_lint") =>
        /\ call.category # None =>
              \A i \in 1..Len(ret.value.findings) :
                 ret.value.findings[i].category = call.category[1]
        /\ call.severity = None =>
              ret.value.findings = FindingsInRegistrationOrder(wf, call.category)

\* A resilience-only run returned findings of two different resilience rules
\* on a workflow for which a rule of another category fires as well.
C13_Witness ==
    /\ Returned("run_lint")
    /\ call.category = Some("resilience") /\ call.severity = None
    /\ \E i, j \in 1..Len(ret.value.findings) :
          i < j /\ ret.value.findings[i].rule_id # ret.value.findings[j].rule_id
    /\ \E i \in 1..Len(_RULE_REGISTRY) :
          /\ _RULE_REGISTRY[i].category # "resilience"
          /\ rule_func(_RULE_REGISTRY[i], wf) # <<>>


\* C14: the severity filter is a pure post-filter: the findings of
\* run_lint(wf, c, s) are exactly the findings of run_lint(wf, c) whose
\* severity is s, in the same order; score and the three counts are computed
\* from the filtered list, so the filtered score is never lower than the
\* unfiltered one.
C14_SeverityPostFilter ==
    Returned("run_lint") /\ call.severity # None =>
        LET unfiltered == FindingsInRegistrationOrder(wf, call.category)
            kept == SelectSeq(unfiltered, LAMBDA f : f.severity = call.severity[1])
            others == Severity \ {call.severity[1]}
        IN /\ ret.value.findings = kept
           /\ ret.value.score = lint_score(kept)
           /\ ret.value.error_count = count_severity(kept, "error")
           /\ ret.value.warning_count = count_severity(kept, "warning")
           /\ ret.value.info_count = count_severity(kept, "info")
           /\ \A sv \in others : count_severity(ret.value.findings, sv) = 0
           /\ ret.value.score >= lint_score(unfiltered)

\* A severity-filtered run dropped findings of other severities, kept at
\* least two, and scored strictly higher than the unfiltered run would.
C14_Witness ==
    /\ Returned("run_lint") /\ call.severity = Some("warning")
    /\ Len(ret.value.findings) >= 2
    /\ Len(ret.value.findings) < Len(FindingsInRegistrationOrder(wf, call.category))
    /\ ret.value.score > lint_score(FindingsInRegistrationOrder(wf, call.category))


-----------------------------------------------------------------------------
(* The budget-overrun rule on bounded inputs                               *)

\* Longest step list of a workflow handed to check_total_over_budget.
MaxBudgetSteps == 3

\* Declared, archetype and type-default steps, llm and not.
BudgetStepPool ==
    {WithTokens(ParsedStep("build", "llm"), 15000),
     WithRole(ParsedStep("plan", "llm"), "planner"),
     ParsedStep("chat", "llm"),
     WithRole(ParsedStep("run_tests", "shell"), "tester"),
     WithTokens(ParsedStep("deploy", "shell"), 5000),
     ParsedStep("cp", "checkpoint")}

\* No budget, a negative one, zero, and budgets some step sums equal.
BudgetArgs == {None, Some(-1), Some(0), Some(5000), Some(13000), Some(20000)}

BudgetWorkflows ==
    {ParsedWorkflow("wf", "gorgon", b, ss, <<>>) :
        b \in BudgetArgs, ss \in SeqsUpTo(BudgetStepPool, MaxBudgetSteps)}

InitBudget ==
    /\ ProcessUnmodelled
    /\ raw = Absent
    /\ step = Absent
    /\ call = NoCall
    /\ ret = NoRet
    /\ wf \in BudgetWorkflows

CheckTotalOverBudget ==
    /\ call = NoCall
    /\ wf # Absent
    /\ call' = [op |-> "check_total_over_budget"]
    /\ ret' = Ok(check_total_over_budget(wf))
    /\ UNCHANGED <<raw, wf, step, process>>

NextBudget == CheckTotalOverBudget

SpecBudget == InitBudget /\ [][NextBudget]_vars

\* The sum over the top-level steps of the estimator's resolved totals.
ResolvedTotal(workflow) ==
    SeqSum([i \in 1..Len(workflow.steps) |-> _resolve_tokens(workflow.steps[i])[1]])

\* C15: check_total_over_budget (B003) returns exactly one error finding
\* when the declared budget is positive and the sum over the top-level steps
\* of the totals _resolve_tokens gives them is strictly greater than the
\* budget, and no finding otherwise (sum equal to the budget, or no positive
\* budget declared).
C15_AsStated ==
    Returned("check_total_over_budget") =>
        IF /\ wf.token_budget # None
           /\ wf.token_budget[1] > 0
           /\ ResolvedTotal(wf) > wf.token_budget[1]
        THEN ret.value = <<LintFinding("B003", "budget", "error", None)>>
        ELSE ret.value = <<>>


-----------------------------------------------------------------------------
(* The missing-checkpoint rule on bounded inputs                           *)

\* Longest step list of a workflow handed to check_missing_checkpoint.
MaxCheckpointSteps == 5

CheckpointStepPool ==
    {WithTokens(ParsedStep("build", "llm"), 15000),
     WithRole(ParsedStep("plan", "llm"), "planner"),
     ParsedStep("chat", "llm"),
     WithTokens(ParsedStep("deploy", "shell"), 20000),
     ParsedStep("cp", "checkpoint")}

CheckpointWorkflows ==
    {ParsedWorkflow("wf", "gorgon", None, ss, <<>>) :
        ss \in SeqsUpTo(CheckpointStepPool, MaxCheckpointSteps)}

InitCheckpoint ==
    /\ ProcessUnmodelled
    /\ raw = Absent
    /\ step = Absent
    /\ call = NoCall
    /\ ret = NoRet
    /\ wf \in CheckpointWorkflows

CheckMissingCheckpoint ==
    /\ call = NoCall
    /\ wf # Absent
    /\ call' = [op |-> "check_missing_checkpoint"]
    /\ ret' = Ok(check_missing_checkpoint(wf))
    /\ UNCHANGED <<raw, wf, step, process>>

NextCheckpoint == CheckMissingCheckpoint

SpecCheckpoint == InitCheckpoint /\ [][NextCheckpoint]_vars

\* The position of the last checkpoint among the first k steps, 0 if none.
LastCheckpoint(steps, k) ==
    LET cps == {0} \cup {j \in 1..k : steps[j].step_type = "checkpoint"}
    IN CHOOSE c \in cps : \A d \in cps : d <= c

\* The llm steps among the first k steps that follow the last checkpoint.
LlmRun(steps, k) ==
    {j \in (LastCheckpoint(steps, k) + 1)..k : steps[j].step_type = "llm"}

\* The sum of the resolved tokens of those llm steps.
LlmRunTokens(steps, k) ==
    SeqSum([j \in 1..k |-> IF j \in LlmRun(steps, k)
                           THEN _resolve_tokens(steps[j])[1] ELSE 0])

\* After step k the count is at least 3 and the sum at least 30000.
CheckpointDue(steps, k) ==
    Cardinality(LlmRun(steps, k)) >= 3 /\ LlmRunTokens(steps, k) >= 30000

\* The step list with a checkpoint inserted after its first k steps.
WithCheckpointAfter(steps, k) ==
    SubSeq(steps, 1, k) \o <<ParsedStep("cp", "checkpoint")>> \o SubSeq(steps, k + 1, Len(steps))

ThreeBuilds ==
    LET build == WithTokens(ParsedStep("build", "llm"), 15000)
    IN <<build, build, build>>

-----------------------------------------------------------------------------
(* The shell-injection rule on bounded inputs                              *)

\* Longest step list of a workflow handed to check_shell_injection.
MaxInjectionSteps == 3

\* Shell steps with an interpolation, without one, without a command, with
\* an empty name, with an unterminated brace and with a list for a command,
\* and an llm step that carries an interpolating command.
InjectionStepPool ==
    {WithParams(ParsedStep("deploy", "shell"), <<<<"command", VStr("cd ${path} && make")>>>>),
     WithParams(ParsedStep("run_tests", "shell"), <<<<"command", VStr("pytest tests/")>>>>),
     ParsedStep("bare", "shell"),
     WithParams(ParsedStep("empty", "shell"), <<<<"command", VStr("echo ${}")>>>>),
     WithParams(ParsedStep("open", "shell"), <<<<"command", VStr("echo ${HOME")>>>>),
     WithParams(ParsedStep("argv", "shell"),
                <<<<"command", VList(<<VStr("sh"), VStr("${cmd}")>>)>>>>),
     WithParams(ParsedStep("ask", "llm"), <<<<"command", VStr("echo ${x}")>>>>)}

InjectionWorkflows ==
    {ParsedWorkflow("wf", "gorgon", None, ss, <<>>) :
        ss \in SeqsUpTo(InjectionStepPool, MaxInjectionSteps)}

InitInjection ==
    /\ ProcessUnmodelled
    /\ raw = Absent
    /\ step = Absent
    /\ call = NoCall
    /\ ret = NoRet
    /\ wf \in InjectionWorkflows

CheckShellInjection ==
    /\ call = NoCall
    /\ wf # Absent
    /\ call' = [op |-> "check_shell_injection"]
    /\ ret' = Ok(check_shell_injection(wf))
    /\ UNCHANGED <<raw, wf, step, process>>

NextInjection == CheckShellInjection

SpecInjection == InitInjection /\ [][NextInjection]_vars

\* text holds "${", then a name of at least one character, then "}".
Interpolates(text) ==
    \E i, j \in 1..Len(text) :
        /\ j > i + 2
        /\ SubSeq(text, i, i + 1) = "${"
        /\ SubSeq(text, j, j) = "}"
        /\ \A k \in (i + 2)..(j - 1) : SubSeq(text, k, k) # "}"

\* The shell steps whose 'command' field interpolates.
InjectableShellStep(s) ==
    /\ s.step_type = "shell"
    /\ HasKey(s.raw_params, "command")
    /\ Interpolates(PyStr(Lookup(s.raw_params, "command")))

\* C17: check_shell_injection (S001) returns one error finding, carrying the
\* step's id, for each shell step whose raw 'command' field contains a
\* '${...}' interpolation with a non-empty name, in step order, and none for
\* a shell step whose command has no interpolation, for a shell step without
\* a 'command' field, or for a step of any other type.
C17_ShellInjection ==
    Returned("check_shell_injection") =>
        LET flagged == SelectSeq(wf.steps, InjectableShellStep)
        IN /\ ret.value = [i \in 1..Len(flagged) |->
                             LintFinding("S001", "security", "error", Some(flagged[i].id))]
           /\ \A i \in 1..Len(ret.value) :
                 ret.value[i].step_id \notin {Some("run_tests"), Some("bare"), Some("ask")}

\* A workflow with an interpolating shell step, a shell step with an empty
\* name and an llm step with an interpolating command got one finding, for
\* the first of them.
C17_Witness ==
    /\ Returned("check_shell_injection")
    /\ {wf.steps[i].id : i \in 1..Len(wf.steps)} = {"deploy", "empty", "ask"}
    /\ ret.value = <<LintFinding("S001", "security", "error", Some("deploy"))>>


-----------------------------------------------------------------------------
(* comparator.py                                                           *)

\* list_providers(): sorted(providers.keys())
list_providers == <<"anthropic", "ollama", "openai">>

\* min(estimates, key=total_cost_usd): the first estimate of minimal cost.
min_by_cost(estimates) ==
    estimates[CHOOSE i \in 1..Len(estimates) :
                 /\ \A j \in 1..Len(estimates) :
                       estimates[i].total_cost_usd <= estimates[j].total_cost_usd
                 /\ \A j \in 1..(i - 1) :
                       estimates[j].total_cost_usd > estimates[i].total_cost_usd]

\* max(estimates, key=total_cost_usd): the first estimate of maximal cost.
max_by_cost(estimates) ==
    estimates[CHOOSE i \in 1..Len(estimates) :
                 /\ \A j \in 1..Len(estimates) :
                       estimates[i].total_cost_usd >= estimates[j].total_cost_usd
                 /\ \A j \in 1..(i - 1) :
                       estimates[j].total_cost_usd < estimates[i].total_cost_usd]

\* A variant of savings_pct that truncates instead of rounding.
savings_pct_truncated(cheapest_cost, most_expensive_cost) ==
    IF most_expensive_cost > 0
    THEN ((most_expensive_cost - cheapest_cost) * 1000) \div most_expensive_cost
    ELSE 0

\* compare_providers, lines 37-39: round((1 - cheapest/most_expensive) * 100, 1),
\* in tenths of a percent.
savings_pct(cheapest_cost, most_expensive_cost) ==
    IF most_expensive_cost > 0
    THEN RoundHalfEven((most_expensive_cost - cheapest_cost) * 1000, most_expensive_cost)
    ELSE 0

\* compare_providers(workflow, providers=None) -> CompareResult
compare_providers(workflow, providers_arg) ==
    LET providers == IF providers_arg = None THEN list_providers ELSE providers_arg[1]
        n == Len(providers)
        results == [i \in 1..n |-> estimate_workflow(workflow, Some(providers[i]), None)]
        failed == {i \in 1..n : ~results[i].ok}
    IN IF failed # {} THEN results[CHOOSE i \in failed : \A j \in failed : i <= j]
       ELSE LET estimates == [i \in 1..n |-> results[i].value]
            IN IF estimates = <<>>
               THEN Ok([workflow_name |-> workflow.name,
                        estimates |-> <<>>,
                        cheapest |-> "",
                        most_expensive |-> "",
                        savings_pct |-> 0])
               ELSE LET cheapest == min_by_cost(estimates)
                        most_expensive == max_by_cost(estimates)
                    IN Ok([workflow_name |-> workflow.name,
                           estimates |-> estimates,
                           cheapest |-> cheapest.provider,
                           most_expensive |-> most_expensive.provider,
                           savings_pct |-> savings_pct(cheapest.total_cost_usd,
                                                       most_expensive.total_cost_usd)])

-----------------------------------------------------------------------------
(* The comparison engine on bounded inputs                                 *)

\* Longest step list of a compared workflow.
MaxCompareSteps == 2

\* Longest list of requested providers.
MaxProviders == 3

\* Declared, archetype, negative and very small llm steps, an llm step bound
\* to a model of one provider, and steps that cost nothing.
CompareStepPool ==
    {WithTokens(ParsedStep("plain", "llm"), 1000),
     WithRole(ParsedStep("plan", "llm"), "planner"),
     WithTokens(ParsedStep("refund", "llm"), -700),
     WithTokens(ParsedStep("tiny", "llm"), 5),
     WithTokens(WithModel(ParsedStep("opus", "llm"), "claude-opus-4"), 20000),
     WithTokens(ParsedStep("tool", "shell"), 7),
     ParsedStep("cp", "checkpoint")}

CompareWorkflows ==
    {ParsedWorkflow("wf", "gorgon", None, ss, <<>>) :
        ss \in SeqsUpTo(CompareStepPool, MaxCompareSteps)}

RequestedProviders ==
    {None} \cup {Some(ps) : ps \in SeqsUpTo({"anthropic", "openai", "ollama", "acme"},
                                            MaxProviders)}

InitCompare ==
    /\ ProcessUnmodelled
    /\ raw = Absent
    /\ step = Absent
    /\ call = NoCall
    /\ ret = NoRet
    /\ wf \in CompareWorkflows

CompareProviders ==
    \E providers \in RequestedProviders :
        /\ call = NoCall
        /\ wf # Absent
        /\ call' = [op |-> "compare_providers", providers |-> providers]
        /\ ret' = compare_providers(wf, providers)
        /\ UNCHANGED <<raw, wf, step, process>>

NextCompare == CompareProviders

SpecCompare == InitCompare /\ [][NextCompare]_vars

\* The providers a call asked for.
Requested == IF call.providers = None THEN list_providers ELSE call.providers[1]

-----------------------------------------------------------------------------
(* Claims about pricing errors                                             *)

\* The provider is not in the pricing table, or the model is not among the
\* provider's models.
NotInPricingTable(provider, model) ==
    \/ provider \notin DOMAIN PROVIDERS
    \/ model \notin DOMAIN PROVIDERS[provider].models

\* The same, with an empty model name standing for the provider's default.
Unpriced(provider, model) ==
    \/ provider \notin DOMAIN PROVIDERS
    \/ model # "" /\ model \notin DOMAIN PROVIDERS[provider].models

\* The provider and model estimate_workflow hands to estimate_step for the
\* i-th step of the workflow of the last call.
HandedProvider(i) ==
    step_provider(wf.steps[i], call.provider # None, resolve_provider(wf, call.provider))

HandedModel(i) ==
    step_model(wf.steps[i], resolve_model(resolve_provider(wf, call.provider), call.model))

\* C19 as stated: estimating an llm step whose provider is not in the
\* pricing table, or whose model is not among that provider's models, fails
\* with PricingError: estimate_step and estimate_workflow return no estimate
\* and the error reaches the caller unmodified.
C19_AsStated ==
    /\ call.op = "estimate_step" /\ step.step_type = "llm"
          /\ NotInPricingTable(call.provider, call.model)
          => ret = Raise("PricingError")
    /\ call.op = "estimate_workflow"
          /\ (\E i \in 1..Len(wf.steps) :
                 /\ wf.steps[i].step_type = "llm"
                 /\ NotInPricingTable(HandedProvider(i), HandedModel(i)))
          => ret = Raise("PricingError")

\* C19, amended: estimating an llm step whose provider is not in the pricing
\* table, or whose non-empty model is not among that provider's models,
\* fails with PricingError (an empty model name is priced as the provider's
\* default model): estimate_step and estimate_workflow return no estimate
\* and the error reaches the caller unmodified; when they do return, every
\* llm estimate carries a priced provider and model.
C19_PricingError ==
    /\ call.op = "estimate_step" /\ step.step_type = "llm"
          /\ Unpriced(call.provider, call.model)
          => ret = Raise("PricingError")
    /\ call.op = "estimate_workflow"
          /\ (\E i \in 1..Len(wf.steps) :
                 /\ wf.steps[i].step_type = "llm"
                 /\ Unpriced(HandedProvider(i), HandedModel(i)))
          => ret = Raise("PricingError")
    /\ \A e \in ReturnedStepEstimates :
          e.step_type = "llm" => ~Unpriced(e.provider, e.model)

\* estimate_workflow failed with PricingError on a workflow whose first step
\* is a priced llm step and whose later step names a model its provider
\* does not have.
C19_Witness ==
    /\ call.op = "estimate_workflow"
    /\ ret = Raise("PricingError")
    /\ Len(wf.steps) >= 2
    /\ wf.steps[1].step_type = "llm"
    /\ ~Unpriced(HandedProvider(1), HandedModel(1))
    /\ \E i \in 2..Len(wf.steps) :
          /\ wf.steps[i].step_type = "llm"
          /\ HandedProvider(i) \in DOMAIN PROVIDERS
          /\ HandedModel(i) = "bogus"


-----------------------------------------------------------------------------
(* Claims about the shape of normalized workflows                          *)

\* The steps of a step list together with their nested steps at any depth.
RECURSIVE StepsAtAnyDepth(_)
StepsAtAnyDepth(steps) ==
    UNION {{steps[i]} \cup StepsAtAnyDepth(steps[i].nested_steps) : i \in 1..Len(steps)}

\* C20: in every workflow produced by any of the four normalizers, a step at
\* any nesting depth has a non-empty nested_steps list only if its step type
\* is one of the container types fan_out, parallel, map_reduce, loop.
C20_OnlyContainersNest ==
    call.op \in {"parse_gorgon", "parse_crewai", "parse_langchain", "parse_generic"}
       /\ ret.ok
       => \A s \in StepsAtAnyDepth(ret.value.steps) :
             s.nested_steps # <<>> => s.step_type \in CONTAINER_STEP_TYPES


-----------------------------------------------------------------------------
(* Claims about the generic, gorgon, langchain and crewai normalizers      *)

\* The keys parse_generic falls back to, in order.
FallbackKeys == <<"agents", "tasks", "pipeline">>

\* The steps C21 expects of parse_generic: those of 'steps' (a list, else a
\* name-to-config mapping) and, when that yields none, those of the first
\* fallback key that is present as a list.
ClaimedGenericSteps(raw_) ==
    LET steps_raw == Get(raw_, "steps", VList(<<>>))
        from_steps == IF steps_raw.k = "list" THEN generic_list_steps(steps_raw.items, "step")
                      ELSE IF steps_raw.k = "map" THEN generic_mapping_steps(steps_raw.kv)
                      ELSE <<>>
        listed == {n \in 1..Len(FallbackKeys) :
                      /\ HasKey(raw_, FallbackKeys[n])
                      /\ Lookup(raw_, FallbackKeys[n]).k = "list"}
    IN IF from_steps # <<>> \/ listed = {} THEN from_steps
       ELSE LET key == FallbackKeys[CHOOSE n \in listed : \A m \in listed : n <= m]
            IN generic_list_steps(Lookup(raw_, key).items, key)

\* C21: parse_generic takes its steps from 'steps' when it is a list, else
\* from 'steps' when it is a name-to-config mapping, and when that yields no
\* step from the first of 'agents', 'tasks', 'pipeline' that is present as a
\* list; a raw mapping with no 'steps' and no 'agents' but a 'tasks' or
\* 'pipeline' list of mappings yields one step per mapping item of that
\* list, with id from 'id', else 'name', else '<key>_<index>'.
C21_GenericFallback ==
    call.op = "parse_generic" /\ ret.ok /\ AllOk(ClaimedGenericSteps(raw.kv))
        => ret.value.steps = Values(ClaimedGenericSteps(raw.kv))


\* What a candidate value contributes: the mapping items of a list, a
\* mapping itself, nothing otherwise.
NestedContribution(v) ==
    IF v.k = "list" THEN SelectSeq(v.items, LAMBDA s : s.k = "map")
    ELSE IF v.k = "map" THEN <<v>>
    ELSE <<>>

\* The 'params' sub-mapping of a raw step, empty when absent or falsy.
ParamsOf(raw_step) ==
    LET params == Get(raw_step, "params", VMap(<<>>))
    IN IF PyTruthy(params) /\ params.k = "map" THEN params.kv ELSE <<>>

\* C22 as stated: both the value under 'params' and the value on the step
\* contribute, for every probed key.
ClaimedNested(raw_step) ==
    Flatten([n \in 1..Len(NestedKeys) |->
        NestedContribution(Get(ParamsOf(raw_step), NestedKeys[n], VNull))
        \o NestedContribution(Get(raw_step, NestedKeys[n], VNull))])

\* What the probe takes: per key one candidate, the value under 'params' when
\* it is truthy and the step's own value otherwise.
ProbedNested(raw_step) ==
    Flatten([n \in 1..Len(NestedKeys) |->
        LET in_params == Get(ParamsOf(raw_step), NestedKeys[n], VNull)
        IN NestedContribution(IF PyTruthy(in_params) THEN in_params
                              ELSE Get(raw_step, NestedKeys[n], VNull))])

\* The raw step mappings of the raw workflow of the last call.
RawStepMappings ==
    LET steps_raw == Get(raw.kv, "steps", VList(<<>>))
    IN IF steps_raw.k = "list" THEN SelectSeq(steps_raw.items, LAMBDA s : s.k = "map")
       ELSE <<>>

EdgeMappings ==
    LET edges == Get(raw.kv, "edges", VList(<<>>))
    IN IF edges.k = "list" THEN SelectSeq(edges.items, LAMBDA e : e.k = "map")
       ELSE <<>>

\* The source of an edge: key 'source', else 'from', else the empty string.
EdgeSource(e) ==
    IF HasKey(e.kv, "source") THEN PyStr(Lookup(e.kv, "source"))
    ELSE IF HasKey(e.kv, "from") THEN PyStr(Lookup(e.kv, "from"))
    ELSE ""

\* The target of an edge: key 'target', else 'to', else the empty string.
EdgeTarget(e) ==
    IF HasKey(e.kv, "target") THEN PyStr(Lookup(e.kv, "target"))
    ELSE IF HasKey(e.kv, "to") THEN PyStr(Lookup(e.kv, "to"))
    ELSE ""

\* The ids of the steps parse_langchain returned.
ParsedNodeIds == {ret.value.steps[n].id : n \in 1..Len(ret.value.steps)}

\* For every step t, t.depends_on holds s exactly when some edge mapping
\* leads from s to t between parsed nodes, and holds it once.
DependsOnMirrorsEdges ==
    \A n \in 1..Len(ret.value.steps) :
        LET t == ret.value.steps[n]
        IN /\ Range(t.depends_on) =
                 {EdgeSource(EdgeMappings[i]) : i \in
                     {j \in 1..Len(EdgeMappings) :
                         /\ EdgeTarget(EdgeMappings[j]) = t.id
                         /\ EdgeSource(EdgeMappings[j]) \in ParsedNodeIds
                         /\ t.id \in ParsedNodeIds}}
           /\ Len(t.depends_on) = Cardinality(Range(t.depends_on))

\* The source step of edge i does not depend on the edge's target, unless
\* another edge entry leads the other way.
NotWiredBackwards(i) ==
    LET e == EdgeMappings[i]
    IN (\A j \in 1..Len(EdgeMappings) :
           j # i => ~(/\ EdgeSource(EdgeMappings[j]) = EdgeTarget(e)
                      /\ EdgeTarget(EdgeMappings[j]) = EdgeSource(e)))
       => \A n \in 1..Len(ret.value.steps) :
             ret.value.steps[n].id = EdgeSource(e)
                => EdgeTarget(e) \notin Range(ret.value.steps[n].depends_on)

\* C23 as stated: after parse_langchain has walked the edge list, for every
\* step t the list t.depends_on contains an id s exactly when some edge
\* mapping has source s and target t, both ids of parsed nodes; each id
\* occurs at most once however often the edge is repeated; an edge never
\* adds its target to the dependencies of its source; an edge naming an
\* unknown id, or a non-mapping edge entry, adds nothing.
C23_AsStated ==
    call.op = "parse_langchain" /\ ret.ok =>
        /\ DependsOnMirrorsEdges
        /\ \A i \in 1..Len(EdgeMappings) : NotWiredBackwards(i)

\* C23, amended: the same, except that only an edge whose source and target
\* differ never adds its target to the dependencies of its source: an edge
\* from a parsed node to itself makes that step depend on itself.
C23_EdgesWired ==
    call.op = "parse_langchain" /\ ret.ok =>
        /\ DependsOnMirrorsEdges
        /\ \A i \in 1..Len(EdgeMappings) :
              EdgeSource(EdgeMappings[i]) # EdgeTarget(EdgeMappings[i])
                 => NotWiredBackwards(i)
        /\ \A i \in 1..Len(EdgeMappings) :
              /\ EdgeSource(EdgeMappings[i]) = EdgeTarget(EdgeMappings[i])
              /\ EdgeSource(EdgeMappings[i]) \in ParsedNodeIds
              => \A n \in 1..Len(ret.value.steps) :
                    ret.value.steps[n].id = EdgeSource(EdgeMappings[i])
                       => ret.value.steps[n].id \in Range(ret.value.steps[n].depends_on)

\* The same edge was given twice, once with 'source'/'target' and once with
\* 'from'/'to': the target depends on the source once and the source on
\* nothing.
C23_Witness ==
    /\ call.op = "parse_langchain" /\ ret.ok
    /\ Len(EdgeMappings) = 2
    /\ HasKey(EdgeMappings[1].kv, "source") /\ HasKey(EdgeMappings[2].kv, "from")
    /\ \E n, m \in 1..Len(ret.value.steps) :
          /\ ret.value.steps[n].id = "think" /\ ret.value.steps[n].depends_on = <<"fetch">>
          /\ ret.value.steps[m].id = "fetch" /\ ret.value.steps[m].depends_on = <<>>


\* The entries of the list under key of the raw workflow of the last call,
\* with their positions from 0, mapping entries only.
MappingEntries(key) ==
    LET v == Get(raw.kv, key, VList(<<>>))
        items == IF v.k = "list" THEN v.items ELSE <<>>
        at == SelectSeq([i \in 1..Len(items) |-> i], LAMBDA i : items[i].k = "map")
    IN [n \in 1..Len(at) |-> [entry |-> items[at[n]].kv, index |-> at[n] - 1]]

\* An agent's id: its 'name', else its 'role', else agent_<index>.
ClaimedAgentId(a) ==
    IF HasKey(a.entry, "name") THEN PyStr(Lookup(a.entry, "name"))
    ELSE IF HasKey(a.entry, "role") THEN PyStr(Lookup(a.entry, "role"))
    ELSE "agent_" \o ToString(a.index)

\* A task's id: its 'name', else the first 40 characters of its
\* 'description', else task_<index>.
ClaimedTaskId(t) ==
    IF HasKey(t.entry, "name") THEN PyStr(Lookup(t.entry, "name"))
    ELSE IF HasKey(t.entry, "description")
    THEN LET d == PyStr(Lookup(t.entry, "description"))
         IN SubSeq(d, 1, IF Len(d) < 40 THEN Len(d) ELSE 40)
    ELSE "task_" \o ToString(t.index)

\* C24: parse_crewai yields one llm step per mapping entry of 'agents'
\* followed by one llm step per mapping entry of 'tasks', each group in list
\* order; an agent's id is its 'name', else its 'role', else
\* 'agent_<index>'; a task's id is its 'name', else the first 40 characters
\* of its 'description', else 'task_<index>'; a task with a non-empty
\* 'agent' field gets depends_on = [that reference] and every other produced
\* step has an empty depends_on; no step has nested steps.
C24_CrewaiSteps ==
    call.op = "parse_crewai" /\ ret.ok =>
        LET agents == MappingEntries("agents")
            tasks == MappingEntries("tasks")
            steps == ret.value.steps
        IN /\ Len(steps) = Len(agents) + Len(tasks)
           /\ \A n \in 1..Len(steps) :
                 steps[n].step_type = "llm" /\ steps[n].nested_steps = <<>>
           /\ \A n \in 1..Len(agents) :
                 /\ steps[n].id = ClaimedAgentId(agents[n])
                 /\ steps[n].depends_on = <<>>
           /\ \A n \in 1..Len(tasks) :
                 LET step_ == steps[Len(agents) + n]
                     agent_ref == Get(tasks[n].entry, "agent", VNull)
                 IN /\ step_.id = ClaimedTaskId(tasks[n])
                    /\ step_.depends_on =
                          IF agent_ref.k = "str" /\ agent_ref.s # ""
                          THEN <<agent_ref.s>> ELSE <<>>

\* A crew with one agent and two tasks was normalized: a named task that
\* refers to the agent, and an unnamed task whose id is the first 40
\* characters of a longer description.
C24_Witness ==
    /\ call.op = "parse_crewai" /\ ret.ok
    /\ Len(MappingEntries("agents")) = 1 /\ Len(MappingEntries("tasks")) = 2
    /\ \E n \in 1..Len(ret.value.steps) :
          /\ ret.value.steps[n].id = "research"
          /\ ret.value.steps[n].depends_on = <<"researcher">>
    /\ \E n \in 1..Len(ret.value.steps) :
          /\ ret.value.steps[n].id = "Write a long report that covers every so"
          /\ ret.value.steps[n].depends_on = <<>>


-----------------------------------------------------------------------------
(* The parallelizable-steps rule on bounded inputs                         *)

\* Longest step list of a workflow handed to check_parallelizable.
MaxParallelSteps == 4

\* llm steps with outputs, with a prompt that interpolates them, with a
\* prompt that interpolates something else, with declared dependencies, and
\* a shell step to stand between them.
ParallelStepPool ==
    {WithParams(ParsedStep("plan", "llm"),
                <<<<"prompt", VStr("Plan the work")>>,
                  <<"outputs", VList(<<VStr("plan"), VStr("risks")>>)>>>>),
     WithParams(ParsedStep("build", "llm"), <<<<"prompt", VStr("Build ${plan}")>>>>),
     WithParams(ParsedStep("guess", "llm"), <<<<"prompt", VStr("Use ${budget}")>>>>),
     [ParsedStep("review", "llm") EXCEPT !.depends_on = <<"build">>],
     [ParsedStep("late", "llm") EXCEPT !.depends_on = <<"plan">>],
     WithParams(ParsedStep("deploy", "shell"), <<<<"command", VStr("make ${plan}")>>>>)}

ParallelWorkflows ==
    {ParsedWorkflow("wf", "gorgon", None, ss, <<>>) :
        ss \in SeqsUpTo(ParallelStepPool, MaxParallelSteps)}

InitParallel ==
    /\ ProcessUnmodelled
    /\ raw = Absent
    /\ step = Absent
    /\ call = NoCall
    /\ ret = NoRet
    /\ wf \in ParallelWorkflows

CheckParallelizable ==
    /\ call = NoCall
    /\ wf # Absent
    /\ call' = [op |-> "check_parallelizable"]
    /\ ret' = Ok(check_parallelizable(wf))
    /\ UNCHANGED <<raw, wf, step, process>>

NextParallel == CheckParallelizable

SpecParallel == InitParallel /\ [][NextParallel]_vars

\* The names a step lists under its raw 'outputs'.
ListedOutputs(s) ==
    LET vals == Get(s.raw_params, "outputs", VNull)
    IN IF vals.k = "list" THEN {PyStr(vals.items[i]) : i \in 1..Len(vals.items)} ELSE {}

\* The later step's raw 'prompt' interpolates an output of the earlier one.
ReadsOutputOf(later, earlier) ==
    LET prompt == IF HasKey(later.raw_params, "prompt")
                  THEN PyStr(Lookup(later.raw_params, "prompt")) ELSE ""
    IN \E name \in ListedOutputs(earlier) :
          \E i \in 1..(Len(prompt) - Len(name) - 2) :
             SubSeq(prompt, i, i + Len(name) + 2) = "${" \o name \o "}"

\* C25: check_parallelizable (E001) considers only the llm steps, in order,
\* non-llm steps between them not breaking adjacency; for each adjacent
\* pair it emits exactly one info finding, attached to the later step's id,
\* when the later step has an empty dependency list and its raw 'prompt'
\* contains no '${name}' for any name the earlier step lists under its raw
\* 'outputs'; nothing for the pair otherwise, and nothing for a workflow
\* with fewer than two llm steps.
C25_Parallelizable ==
    Returned("check_parallelizable") =>
        LET llm == SelectSeq(wf.steps, LAMBDA s : s.step_type = "llm")
            pairs == SelectSeq([i \in 1..(Len(llm) - 1) |-> i],
                               LAMBDA i : /\ llm[i + 1].depends_on = <<>>
                                          /\ ~ReadsOutputOf(llm[i + 1], llm[i]))
        IN /\ ret.value = [n \in 1..Len(pairs) |->
                             LintFinding("E001", "efficiency", "info",
                                         Some(llm[pairs[n] + 1].id))]
           /\ Len(llm) < 2 => ret.value = <<>>

\* Four steps were checked, a shell step standing between two llm steps:
\* the llm step after it reads the output of the llm step before it and is
\* not flagged, while another pair is.
C25_Witness ==
    /\ Returned("check_parallelizable")
    /\ Len(wf.steps) = MaxParallelSteps
    /\ \E i \in 1..(Len(wf.steps) - 2) :
          /\ wf.steps[i].id = "plan"
          /\ wf.steps[i + 1].id = "deploy"
          /\ wf.steps[i + 2].id = "build"
    /\ Len(ret.value) = 1
    /\ ret.value[1].step_id # Some("build")

-----------------------------------------------------------------------------
(* rules/__init__.py and linter.py: the registry as module-level state     *)

\* The rule modules of the package; each registers the rules of the category
\* it is named after.
RuleModules == {"budget", "resilience", "efficiency", "security"}

\* The @lint_rule decorators a rule module applies when its body runs, in
\* source order.
rules_of_module(m) ==
    CASE m = "budget" ->
           <<RuleEntry("B001", "budget", "warning"), RuleEntry("B002", "budget", "warning"),
             RuleEntry("B003", "budget", "error"), RuleEntry("B004", "budget", "info")>>
      [] m = "resilience" ->
           <<RuleEntry("R001", "resilience", "warning"),
             RuleEntry("R002", "resilience", "warning"),
             RuleEntry("R003", "resilience", "info"),
             RuleEntry("R004", "resilience", "warning"),
             RuleEntry("R005", "resilience", "info")>>
      [] m = "efficiency" ->
           <<RuleEntry("E001", "efficiency", "info"),
             RuleEntry("E002", "efficiency", "warning"),
             RuleEntry("E003", "efficiency", "info"),
             RuleEntry("E004", "efficiency", "warning")>>
      [] m = "security" ->
           <<RuleEntry("S001", "security", "error"), RuleEntry("S002", "security", "warning"),
             RuleEntry("S003", "security", "info"), RuleEntry("S004", "security", "warning")>>

\* A variant of lint_rule that puts the new entry first.
lint_rule_first(entries, entry) == <<entry>> \o entries

\* lint_rule(...)(func): _RULE_REGISTRY.append(RuleEntry(...)); entries is the
\* registry before, the result the registry after.
lint_rule(entries, entry) == Append(entries, entry)

\* The body of a rule module: its decorators applied one after another.
RECURSIVE exec_decorators(_, _)
exec_decorators(entries, decorated) ==
    IF decorated = <<>> THEN entries
    ELSE exec_decorators(lint_rule(entries, Head(decorated)), Tail(decorated))

\* A variant of import_module that runs the module body on every import.
import_module_again(modules, entries, m) ==
    [modules |-> modules \cup {m},
     entries |-> exec_decorators(entries, rules_of_module(m))]

\* import agent_audit.rules.<m>: the body of a module runs on its first
\* import only; a later import finds it in sys.modules.
import_module(modules, entries, m) ==
    IF m \in modules THEN [modules |-> modules, entries |-> entries]
    ELSE [modules |-> modules \cup {m},
          entries |-> exec_decorators(entries, rules_of_module(m))]

\* Two import statements, one after the other.
import_both(modules, entries, first, second) ==
    LET after == import_module(modules, entries, first)
    IN import_module(after.modules, after.entries, second)

\* import agent_audit.linter: its body imports the budget and the resilience
\* rules.
import_linter(modules, entries) ==
    IF "linter" \in modules THEN [modules |-> modules, entries |-> entries]
    ELSE import_both(modules \cup {"linter"}, entries, "budget", "resilience")

\* _import_all_rules()
_import_all_rules(modules, entries) ==
    import_both(modules, entries, "efficiency", "security")

\* A Python list object: obj tells the registry's own list from a new one.
ListObject(obj, items) == [obj |-> obj, items |-> items]

\* get_all_rules() while the registry holds entries: list(_RULE_REGISTRY)
registered_rules(entries) == ListObject("new", entries)

\* get_rules_by_category(category) while the registry holds entries
registered_rules_by_category(entries, category) ==
    ListObject("new", SelectSeq(entries, LAMBDA r : r.category = category))

\* run_lint(workflow, category, severity) in a process whose imported modules
\* and registry are given: the modules and registry after, and the report.
run_lint_in(modules, entries, workflow, category, severity) ==
    LET after == _import_all_rules(modules, entries)
        rules == IF category # None
                 THEN registered_rules_by_category(after.entries, category[1]).items
                 ELSE registered_rules(after.entries).items
        all_findings == Flatten([i \in 1..Len(rules) |-> rule_func(rules[i], workflow)])
        findings == IF severity # None
                    THEN SelectSeq(all_findings, LAMBDA f : f.severity = severity[1])
                    ELSE all_findings
    IN [modules |-> after.modules, entries |-> after.entries,
        report |-> Ok(lint_report(workflow, findings))]

-----------------------------------------------------------------------------
(* Bounded behaviours of a process that imports, reads the registry, lints *)

MaxRegistrySteps == 1

RegistryStepPool ==
    {WithParams(ParsedStep("deploy", "shell"), <<<<"command", VStr("cd ${path} && make")>>>>),
     ParsedStep("draft", "llm")}

RegistryWorkflows ==
    {ParsedWorkflow("wf", "gorgon", None, ss, <<>>) :
        ss \in SeqsUpTo(RegistryStepPool, MaxRegistrySteps)}

RegistryCategoryArgs == {None, Some("budget"), Some("security")}
RegistrySeverityArgs == {None, Some("error")}

\* A fresh interpreter: nothing of the package imported, no rule registered.
InitRegistry ==
    /\ raw = Absent
    /\ step = Absent
    /\ call = NoCall
    /\ ret = NoRet
    /\ wf \in RegistryWorkflows
    /\ sys_modules = {}
    /\ registry = <<>>
    /\ _cached_providers = Absent
    /\ files = Absent

\* import agent_audit.linter
ImportLinter ==
    LET after == import_linter(sys_modules, registry)
    IN /\ call' = [op |-> "import", module |-> "linter"]
       /\ ret' = NoRet
       /\ sys_modules' = after.modules
       /\ registry' = after.entries
       /\ UNCHANGED <<raw, wf, step, _cached_providers, files>>

\* import agent_audit.rules.<m>, by the program itself
ImportRuleModule ==
    \E m \in RuleModules :
        LET after == import_module(sys_modules, registry, m)
        IN /\ call' = [op |-> "import", module |-> m]
           /\ ret' = NoRet
           /\ sys_modules' = after.modules
           /\ registry' = after.entries
           /\ UNCHANGED <<raw, wf, step, _cached_providers, files>>

GetAllRules ==
    /\ call' = [op |-> "get_all_rules"]
    /\ ret' = Ok(registered_rules(registry))
    /\ UNCHANGED <<raw, wf, step, process>>

GetRulesByCategory ==
    \E category \in RuleCategory :
        /\ call' = [op |-> "get_rules_by_category", category |-> category]
        /\ ret' = Ok(registered_rules_by_category(registry, category))
        /\ UNCHANGED <<raw, wf, step, process>>

\* The caller changes the list it was handed: returned.pop(0). The registry
\* changes with it when the list handed out is the registry's own.
PopReturned ==
    /\ call.op \in {"get_all_rules", "get_rules_by_category", "pop"}
    /\ ret.value.items # <<>>
    /\ call' = [op |-> "pop"]
    /\ ret' = Ok(ListObject(ret.value.obj, Tail(ret.value.items)))
    /\ registry' = IF ret.value.obj = "_RULE_REGISTRY" THEN Tail(registry) ELSE registry
    /\ UNCHANGED <<raw, wf, step, sys_modules, _cached_providers, files>>

\* run_lint(wf, category=..., severity=...), once the linter is imported
RunLintInProcess ==
    \E category \in RegistryCategoryArgs, severity \in RegistrySeverityArgs :
        LET after == run_lint_in(sys_modules, registry, wf, category, severity)
        IN /\ "linter" \in sys_modules
           /\ call' = [op |-> "run_lint", category |-> category, severity |-> severity]
           /\ ret' = after.report
           /\ sys_modules' = after.modules
           /\ registry' = after.entries
           /\ UNCHANGED <<raw, wf, step, _cached_providers, files>>

NextRegistry ==
    \/ ImportLinter
    \/ ImportRuleModule
    \/ GetAllRules
    \/ GetRulesByCategory
    \/ PopReturned
    \/ RunLintInProcess

SpecRegistry == InitRegistry /\ [][NextRegistry]_vars

-----------------------------------------------------------------------------
(* Claims about the rule registry                                          *)

\* The entries of one category, in the order they have in entries.
RECURSIVE OfCategory(_, _)
OfCategory(entries, category) ==
    IF entries = <<>> THEN <<>>
    ELSE IF Head(entries).category = category
         THEN <<Head(entries)>> \o OfCategory(Tail(entries), category)
         ELSE OfCategory(Tail(entries), category)

\* The rule modules whose body ran in the step.
NewlyImported == (sys_modules' \ sys_modules) \cap RuleModules

\* C26: the registry only grows at its end: every step keeps the entries it
\* held, in place, and adds one entry per rule registered, in registration
\* order, after them. get_all_rules hands out the entries in registration
\* order in a list of its own, so that changing that list leaves the
\* registry alone, and get_rules_by_category(c) hands out exactly the
\* entries of category c in the order they have in the registry.
C26_RegistryAppendOnly ==
    [][/\ Len(registry') >= Len(registry)
       /\ SubSeq(registry', 1, Len(registry)) = registry
       /\ \A m \in RuleModules :
             OfCategory(registry', m) =
                OfCategory(registry, m)
                   \o (IF m \in NewlyImported THEN rules_of_module(m) ELSE <<>>)
       /\ call'.op = "get_all_rules" =>
             /\ ret'.ok
             /\ ret'.value.items = registry'
             /\ ret'.value.obj # "_RULE_REGISTRY"
             /\ registry' = registry
       /\ call'.op = "get_rules_by_category" =>
             /\ ret'.ok
             /\ ret'.value.items = OfCategory(registry', call'.category)
             /\ ret'.value.obj # "_RULE_REGISTRY"
             /\ registry' = registry
       /\ call'.op = "pop" => registry' = registry]_vars

\* The security rules were registered first and the others after them; the
\* budget rules are asked for and come out as the four of them.
C26_Witness ==
    /\ call.op = "get_rules_by_category"
    /\ call.category = "budget"
    /\ Len(registry) = 17
    /\ registry[1].category = "security"
    /\ Len(ret.value.items) = 4
    /\ ret.value.items[1].rule_id = "B001"

\* The rule ids of the four rule modules.
AllRuleIds ==
    {rules_of_module(m)[i].rule_id : m \in RuleModules, i \in 1..4}
        \cup {rules_of_module("resilience")[5].rule_id}

\* entries holds every rule of the four rule modules, each rule id once.
Complete(entries) ==
    /\ Len(entries) = Cardinality(AllRuleIds)
    /\ {entries[i].rule_id : i \in 1..Len(entries)} = AllRuleIds

\* C27 as stated: once the linter is imported the registry is complete, so
\* get_all_rules returns every budget, resilience, efficiency and security
\* rule, each rule id once, before the first run_lint call as well as after
\* it.
C27_AsStated ==
    ("linter" \in sys_modules /\ call.op = "get_all_rules") =>
        Complete(ret.value.items)

\* C27, amended: the registry is filled in stages, by the imports of the rule
\* modules: a run_lint call leaves it complete (every rule of the four
\* modules, each rule id once), a complete registry is never changed again,
\* by run_lint or by anything else, get_all_rules then returns it whole, and
\* a run_lint call repeated with the same arguments returns the report the
\* call before it returned and leaves the registry as it is.
C27_RegistryFilledByFirstLint ==
    [][/\ call'.op = "run_lint" =>
             LET again == run_lint_in(sys_modules', registry', wf',
                                      call'.category, call'.severity)
             IN /\ Complete(registry')
                /\ again.report = ret'
                /\ again.entries = registry'
       /\ Complete(registry) => registry' = registry
       /\ (call'.op = "get_all_rules" /\ Complete(registry)) =>
             ret'.value.items = registry]_vars

\* run_lint was called when only the linter had been imported: the registry
\* now holds the seventeen rules in the linter's import order and the report
\* holds a finding of a rule that the call itself registered.
C27_Witness ==
    /\ call.op = "run_lint"
    /\ registry = _RULE_REGISTRY
    /\ \E i \in 1..Len(ret.value.findings) : ret.value.findings[i].rule_id = "S001"

-----------------------------------------------------------------------------
(* pricing.py: load_providers, reset_cache and the module-level cache      *)

\* What a path holds: no readable file (read_text raises OSError), text that
\* is not YAML (safe_load raises YAMLError), or a YAML document.
Unreadable == [k |-> "unreadable"]
NotYaml == [k |-> "not_yaml"]

\* float(v), for the numbers a pricing document holds (whole numbers here).
py_float(v) ==
    CASE v.k = "int" -> Ok(v.n)
      [] v.k = "bool" -> Ok(IF v.b THEN 1 ELSE 0)
      [] v.k = "str" -> IF IsIntString(v.s) THEN Ok(StrToInt(v.s)) ELSE Raise("ValueError")
      [] OTHER -> Raise("TypeError")

\* ModelPricing(name=..., provider=..., input_price_per_1k=float(...), ...)
new_ModelPricing(provider_name, model_name, model_data) ==
    LET input == py_float(Get(model_data, "input", VInt(0)))
        output == py_float(Get(model_data, "output", VInt(0)))
        context == PyInt(Get(model_data, "context", VInt(0)))
    IN IF ~input.ok THEN input
       ELSE IF ~output.ok THEN output
       ELSE IF ~context.ok THEN context
       ELSE Ok([name |-> model_name, provider |-> provider_name,
                input_price_per_1k |-> input.value,
                output_price_per_1k |-> output.value,
                context_window |-> context.value,
                notes |-> PyStr(Get(model_data, "notes", VStr("")))])

\* load_providers, lines 38-54: the ProviderConfig of one provider mapping.
new_ProviderConfig(provider_name, provider_data) ==
    LET models_raw == Get(provider_data, "models", VMap(<<>>))
    IN IF models_raw.k # "map" THEN Raise("AttributeError")
       ELSE LET at == SelectSeq([i \in 1..Len(models_raw.kv) |-> i],
                                LAMBDA i : models_raw.kv[i][2].k = "map")
                models == [n \in 1..Len(at) |->
                              new_ModelPricing(provider_name, models_raw.kv[at[n]][1],
                                               models_raw.kv[at[n]][2].kv)]
            IN IF ~AllOk(models) THEN FirstError(models)
               ELSE Ok([name |-> provider_name,
                        models |-> Values(models),
                        default_model |->
                           PyStr(Get(provider_data, "default_model", VStr("")))])

\* load_providers, lines 24-54: the table read from what the path holds, in
\* the order of the document, or the exception raised.
read_providers(content) ==
    IF content.k \in {"unreadable", "not_yaml"} THEN Raise("PricingError")
    ELSE IF content.k # "map" THEN Raise("AttributeError")
    ELSE LET providers_raw == Get(content.kv, "providers", VMap(<<>>))
         IN IF providers_raw.k # "map" THEN Raise("PricingError")
            ELSE LET at == SelectSeq([i \in 1..Len(providers_raw.kv) |-> i],
                                     LAMBDA i : providers_raw.kv[i][2].k = "map")
                     configs == [n \in 1..Len(at) |->
                                    new_ProviderConfig(providers_raw.kv[at[n]][1],
                                                       providers_raw.kv[at[n]][2].kv)]
                 IN IF ~AllOk(configs) THEN FirstError(configs) ELSE Ok(Values(configs))

\* The dict a call hands back: cached tells the object the cache holds from
\* a dict built by this call and held by nobody else.
TableObject(cached, table) == [cached |-> cached, table |-> table]

\* The file a call reads: PROVIDERS_FILE when no path is given.
pricing_path(path) == IF path = None THEN "PROVIDERS_FILE" ELSE path[1]

\* A variant of load_providers that tests the cache for truth, so that a
\* cached table without providers is read again.
load_providers_truthy(cache, disk, path) ==
    IF cache # None /\ cache[1] # <<>> /\ path = None
    THEN [cache |-> cache, ret |-> Ok(TableObject(TRUE, cache[1]))]
    ELSE LET result == read_providers(disk[pricing_path(path)])
         IN IF ~result.ok THEN [cache |-> cache, ret |-> result]
            ELSE IF path = None
            THEN [cache |-> Some(result.value), ret |-> Ok(TableObject(TRUE, result.value))]
            ELSE [cache |-> cache, ret |-> Ok(TableObject(FALSE, result.value))]

\* load_providers(path): cache is _cached_providers before the call and disk
\* what the paths hold; the result is _cached_providers after the call and
\* what the call returns or raises.
load_providers(cache, disk, path) ==
    IF cache # None /\ path = None
    THEN [cache |-> cache, ret |-> Ok(TableObject(TRUE, cache[1]))]
    ELSE LET result == read_providers(disk[pricing_path(path)])
         IN IF ~result.ok THEN [cache |-> cache, ret |-> result]
            ELSE IF path = None
            THEN [cache |-> Some(result.value), ret |-> Ok(TableObject(TRUE, result.value))]
            ELSE [cache |-> cache, ret |-> Ok(TableObject(FALSE, result.value))]

\* reset_cache(): _cached_providers after the call.
reset_cache(cache) == None

-----------------------------------------------------------------------------
(* Bounded behaviours of a process that loads pricing tables               *)

PricingModel(input, output) ==
    VMap(<<<<"input", VInt(input)>>, <<"output", VInt(output)>>>>)

PricingDoc(providers) == VMap(<<<<"providers", providers>>>>)

AcmeAt(input, output) ==
    <<"acme", VMap(<<<<"default_model", VStr("a1")>>,
                     <<"models", VMap(<<<<"a1", PricingModel(input, output)>>>>)>>>>)>>

\* What a pricing file may hold.
FileContents ==
    {Unreadable,
     NotYaml,
     VNull,
     VMap(<<>>),
     PricingDoc(VList(<<VStr("acme")>>)),
     PricingDoc(VMap(<<AcmeAt(1, 2)>>)),
     PricingDoc(VMap(<<<<"note", VStr("draft")>>, AcmeAt(3, 4)>>)),
     PricingDoc(VMap(<<<<"acme", VMap(<<<<"models",
         VMap(<<<<"a1", VMap(<<<<"input", VStr("free")>>>>)>>>>)>>>>)>>>>))}

PricingPaths == {"PROVIDERS_FILE", "custom.yaml"}

PathArgs == {None, Some("custom.yaml"), Some("PROVIDERS_FILE")}

\* A fresh interpreter: nothing cached; the files hold anything.
InitPricing ==
    /\ raw = Absent
    /\ wf = Absent
    /\ step = Absent
    /\ call = NoCall
    /\ ret = NoRet
    /\ sys_modules = Absent
    /\ registry = Absent
    /\ _cached_providers = None
    /\ files \in [PricingPaths -> FileContents]

LoadProviders ==
    \E path \in PathArgs :
        LET after == load_providers(_cached_providers, files, path)
        IN /\ call' = [op |-> "load_providers", path |-> path]
           /\ ret' = after.ret
           /\ _cached_providers' = after.cache
           /\ UNCHANGED <<raw, wf, step, sys_modules, registry, files>>

ResetCache ==
    /\ call' = [op |-> "reset_cache"]
    /\ ret' = Ok(None)
    /\ _cached_providers' = reset_cache(_cached_providers)
    /\ UNCHANGED <<raw, wf, step, sys_modules, registry, files>>

\* Somebody rewrites or removes a pricing file between two calls.
WriteFile ==
    \E path \in PricingPaths, content \in FileContents :
        /\ files[path] # content
        /\ call' = [op |-> "write_text", path |-> path]
        /\ ret' = NoRet
        /\ files' = [files EXCEPT ![path] = content]
        /\ UNCHANGED <<raw, wf, step, sys_modules, registry, _cached_providers>>

NextPricing == LoadProviders \/ ResetCache \/ WriteFile

SpecPricing == InitPricing /\ [][NextPricing]_vars

-----------------------------------------------------------------------------
(* Claims about the pricing cache                                          *)

\* C28: over any sequence of load_providers and reset_cache calls, with the
\* files changing in between: a no-path load made while the cache is empty
\* fills it with the table it returns when it succeeds; a no-path load made
\* while the cache is filled returns the cached table whatever the pricing
\* file holds by then and leaves the cache alone; a load with an explicit
\* path returns a table of its own, read from that path, and leaves the cache
\* alone; a load that fails leaves the cache alone; and a filled cache is
\* emptied by reset_cache only.
C28_PricingCache ==
    [][/\ (call'.op = "load_providers" /\ call'.path = None /\ _cached_providers = None) =>
             IF ret'.ok
             THEN /\ read_providers(files["PROVIDERS_FILE"]) = Ok(ret'.value.table)
                  /\ _cached_providers' = Some(ret'.value.table)
                  /\ ret'.value.cached
             ELSE _cached_providers' = None
       /\ (call'.op = "load_providers" /\ call'.path = None /\ _cached_providers # None) =>
             /\ ret' = Ok(TableObject(TRUE, _cached_providers[1]))
             /\ _cached_providers' = _cached_providers
       /\ (call'.op = "load_providers" /\ call'.path # None) =>
             /\ _cached_providers' = _cached_providers
             /\ ret'.ok => /\ ~ret'.value.cached
                           /\ read_providers(files[call'.path[1]]) = Ok(ret'.value.table)
       /\ (call'.op = "load_providers" /\ ~ret'.ok) =>
             _cached_providers' = _cached_providers
       /\ call'.op = "reset_cache" => _cached_providers' = None
       /\ (_cached_providers # None /\ _cached_providers' # _cached_providers) =>
             (call'.op = "reset_cache" /\ _cached_providers' = None)
       /\ (_cached_providers = None /\ _cached_providers' # None) =>
             (call'.op = "load_providers" /\ call'.path = None /\ ret'.ok)]_vars

\* A table without providers is cached, the pricing file now holds another
\* table, and a no-path load has returned the cached one all the same.
C28_Witness ==
    /\ call.op = "load_providers"
    /\ call.path = None
    /\ ret.ok
    /\ _cached_providers = Some(<<>>)
    /\ ret.value.table = <<>>
    /\ read_providers(files["PROVIDERS_FILE"]).ok
    /\ read_providers(files["PROVIDERS_FILE"]).value # <<>>

-----------------------------------------------------------------------------
(* Bounded inputs of a lint of workflows whose steps hold nested steps     *)

MaxNestedLintSteps == 2

\* Steps that would each draw findings were they top-level steps: a shell
\* command with an interpolation and no timeout, an LLM step without an
\* estimate and without on_failure, and an LLM step over any budget here.
NestedLintPool ==
    <<WithParams(ParsedStep("inner_deploy", "shell"),
                 <<<<"command", VStr("cd ${path} && rm -rf /tmp/x")>>>>),
      ParsedStep("inner_draft", "llm"),
      [ParsedStep("inner_big", "llm") EXCEPT !.estimated_tokens = Some(900000)]>>

NestedChoices ==
    {<<>>,
     <<NestedLintPool[1]>>,
     <<NestedLintPool[2], NestedLintPool[3]>>,
     <<NestedLintPool[3], NestedLintPool[1], NestedLintPool[2]>>}

\* Top-level steps: a container, and a shell step, with each choice of nested
\* steps, and a plain LLM step.
NestedLintStepPool ==
    {WithNested(ParsedStep("fan", "parallel"), ns) : ns \in NestedChoices}
        \cup {WithNested(ParsedStep("run", "shell"), ns) : ns \in NestedChoices}
        \cup {[ParsedStep("draft", "llm") EXCEPT !.estimated_tokens = Some(600)]}

NestedLintWorkflows ==
    {ParsedWorkflow("wf", "gorgon", b, ss, <<>>) :
        b \in {None, Some(1000)},
        ss \in SeqsUpTo(NestedLintStepPool, MaxNestedLintSteps)}

InitNestedLint ==
    /\ ProcessUnmodelled
    /\ raw = Absent
    /\ step = Absent
    /\ call = NoCall
    /\ ret = NoRet
    /\ wf \in NestedLintWorkflows

NextNestedLint == RunLint

SpecNestedLint == InitNestedLint /\ [][NextNestedLint]_vars

-----------------------------------------------------------------------------
(* Claims about what the lint rules look at                                *)

\* The workflow with the nested steps of every top-level step taken out.
WithoutNested(workflow) ==
    [workflow EXCEPT !.steps = [i \in 1..Len(workflow.steps) |->
                                   WithNested(workflow.steps[i], <<>>)]]

\* C29: the lint rules look at the top-level steps only: the report of a
\* workflow is the report of the same workflow with every nested step taken
\* out, so that workflows differing in nested steps only get equal reports,
\* and the step_id of a finding, when it has one, is the id of a top-level
\* step.
C29_TopLevelStepsOnly ==
    Returned("run_lint") =>
        /\ ret = run_lint(WithoutNested(wf), call.category, call.severity)
        /\ \A i \in 1..Len(ret.value.findings) :
              ret.value.findings[i].step_id # None =>
                 \E n \in 1..Len(wf.steps) :
                    wf.steps[n].id = ret.value.findings[i].step_id[1]

\* A container holds a shell step with an interpolated command and an LLM
\* step far over the budget, and the full lint reports no security finding
\* and no budget overrun.
C29_Witness ==
    /\ Returned("run_lint")
    /\ call.category = None
    /\ call.severity = None
    /\ wf.token_budget = Some(1000)
    /\ Len(wf.steps) = 1
    /\ wf.steps[1].step_type = "parallel"
    /\ Len(wf.steps[1].nested_steps) = 3
    /\ \A i \in 1..Len(ret.value.findings) :
          ret.value.findings[i].rule_id \notin {"S001", "B003", "R004"}

-----------------------------------------------------------------------------
(* Claims about the model a step is estimated with                         *)

\* C30 as stated: a step that declares a model is always estimated with it,
\* whatever provider and model the caller supplies, and the workflow-level
\* model (the caller's, else the provider's default) is used only for the
\* steps that declare none.
C30_AsStated ==
    Returned("estimate_workflow") =>
        \A i \in 1..Len(wf.steps) :
            ret.value.steps[i].model =
                IF wf.steps[i].model # None THEN wf.steps[i].model[1]
                ELSE ret.value.model

\* C30, amended: a step whose own model is a non-empty string is estimated
\* with that model, whatever provider and model the caller supplies: its
\* estimate pairs the provider handed to the step (the caller's when given)
\* with the step's own model, an llm step is priced at the rates of exactly
\* that pair, and the whole estimate fails with PricingError when the
\* provider is known and does not have that model. The workflow-level model
\* (the caller's, else the default of the workflow-level provider, else
\* 'unknown') is used for the steps whose model is absent or empty.
C30_StepModelKept ==
    call.op = "estimate_workflow" =>
        /\ ret.ok =>
              \A i \in 1..Len(wf.steps) :
                  LET s == wf.steps[i]
                      e == ret.value.steps[i]
                  IN IF TruthyStr(s.model)
                     THEN /\ e.model = s.model[1]
                          /\ call.provider # None => e.provider = call.provider[1]
                          /\ s.step_type = "llm" =>
                                /\ e.provider \in DOMAIN PROVIDERS
                                /\ s.model[1] \in DOMAIN PROVIDERS[e.provider].models
                                /\ e.cost_usd =
                                      calculate_cost(e.input_tokens, e.output_tokens,
                                                     PROVIDERS[e.provider].models[s.model[1]])
                     ELSE e.model =
                             IF call.model # None THEN call.model[1]
                             ELSE IF ret.value.provider \in DOMAIN PROVIDERS
                             THEN PROVIDERS[ret.value.provider].default_model
                             ELSE "unknown"
        /\ (\E i \in 1..Len(wf.steps) :
               /\ wf.steps[i].step_type = "llm"
               /\ TruthyStr(wf.steps[i].model)
               /\ HandedProvider(i) \in DOMAIN PROVIDERS
               /\ wf.steps[i].model[1] \notin DOMAIN PROVIDERS[HandedProvider(i)].models)
              => ret = Raise("PricingError")

\* The caller supplies a model; a step that declares another model keeps its
\* own and is priced with it, and a step that declares none gets the
\* caller's.
C30_Witness ==
    /\ Returned("estimate_workflow")
    /\ call.model = Some("claude-opus-4")
    /\ \E i \in 1..Len(wf.steps) :
          /\ wf.steps[i].model = Some("llama3.3-70b")
          /\ ret.value.steps[i].model = "llama3.3-70b"
          /\ ret.value.steps[i].provider = "ollama"
    /\ \E i \in 1..Len(wf.steps) :
          /\ wf.steps[i].model = None
          /\ wf.steps[i].step_type = "llm"
          /\ ret.value.steps[i].model = "claude-opus-4"
          /\ ret.value.steps[i].cost_usd > 0

=============================================================================
